---- MODULE Spec2Model ----
(***************************************************************************)
(* Cluster command emulation of coredis (coredis/commands/*.py).           *)
(*                                                                         *)
(* The cluster mixins replace multi-key commands by a sequence of          *)
(* single-key commands, each one awaited before the next is issued.  The   *)
(* model keeps the keyspace of the cluster as one function `store`, the    *)
(* call in flight as the record `call` (its arguments and local            *)
(* variables), its position as `pc`, the commands it has issued as `log`   *)
(* and its outcome as `ret`.  One action is one awaited command together   *)
(* with the client code that runs up to the next await.  Any awaited       *)
(* command may instead raise (connection error, timeout, cancellation):    *)
(* then the command is not applied and the call ends with that error.      *)
(* The Router that carries each command to its node is modelled on its     *)
(* own, with the Topology Map as its state.                                *)
(***************************************************************************)
EXTENDS Integers, Sequences, FiniteSets, TLC

VARIABLES
    store,  \* key -> value held by the cluster ([type, val, ttl])
    call,   \* the call in flight: op, arguments, local variables
    pc,     \* position of the call: the next command to issue, "done", "raised"
    log,    \* commands issued by the call so far, in order
    ret,    \* outcome of the call: [kind, val] or [kind, err, at]
    ghost,  \* history: the store when the call started, earlier runs
    topology \* the client's Topology Map, consulted by the Router

vars == <<store, call, pc, log, ret, ghost, topology>>

----------------------------------------------------------------------------
(* Values and the single-key commands the emulations are built from.       *)

\* The emulations are modelled above the Router: each of their commands
\* reaches the node that holds its key, and the Topology Map plays no part.
NoTopology == [unused |-> TRUE]

\* A key that does not exist.
Absent == [type |-> "none", val |-> "", ttl |-> -1]

\* ttl: -1 no expiry, otherwise the remaining milliseconds.
StringValue(v, t) == [type |-> "string", val |-> v, ttl |-> t]

SetValue(m) == [type |-> "set", val |-> m, ttl |-> -1]

ListValue(l) == [type |-> "list", val |-> l, ttl |-> -1]

Exists(s, k) == s[k].type # "none"

\* Python's None as a reply.
None == [none |-> TRUE]

NoReturn == [kind |-> "none"]

Returned(v) == [kind |-> "value", val |-> v]

\* A returned value together with its Python type, where a call returns
\* values of more than one type.
ReturnedAs(pytype, v) == [kind |-> "value", val |-> v, pytype |-> pytype]

\* An exception leaving the call; `at` is the position it was raised at.
Raised(e, at) == [kind |-> "error", err |-> e, at |-> at]

Cmd(name, key) == [cmd |-> name, key |-> key]

\* DEL key: the key is removed.
DEL(s, k) == [s EXCEPT ![k] = Absent]

\* A DUMP that serializes a missing key too instead of replying None.
DUMP_never_none(s, k) == [ser |-> [type |-> s[k].type, val |-> s[k].val]]

\* DUMP key: the serialized value (type and content, not the expiry), None
\* for a key that does not exist.
DUMP(s, k) ==
    IF Exists(s, k) THEN [ser |-> [type |-> s[k].type, val |-> s[k].val]] ELSE None

\* PTTL key: -2 no such key, -1 no expiry, otherwise the remaining milliseconds.
PTTL(s, k) == IF Exists(s, k) THEN s[k].ttl ELSE -2

\* A RESTORE with REPLACE: never BUSYKEY.
RESTORE_busy_replace(s, k) == FALSE

\* RESTORE key ttl serialized-value without REPLACE: BUSYKEY when the key exists.
RESTORE_busy(s, k) == Exists(s, k)

\* RESTORE key ttl serialized-value: ttl 0 creates the key without expiry.
RESTORE(s, k, ttl, data) ==
    [s EXCEPT ![k] = [type |-> data.ser.type, val |-> data.ser.val,
                      ttl |-> IF ttl = 0 THEN -1 ELSE ttl]]

----------------------------------------------------------------------------
(* ClusterKeysCommandMixin.rename                                          *)

RenameKeys == {"k1", "k2"}

RenameContents == {"x", "y"}

MaxTtl == 2

RenameValues ==
    {Absent} \cup {StringValue(v, t) : v \in RenameContents, t \in -1 .. MaxTtl}

rename_running == {"rename_dump", "rename_pttl", "rename_del_dst",
                   "rename_restore", "rename_del_src"}

\* A mis-ordered rename: the source is deleted before the destination is written.
rename_order_del_first(p) ==
    CASE p = "rename_dump" -> "rename_pttl"
      [] p = "rename_pttl" -> "rename_del_dst"
      [] p = "rename_del_dst" -> "rename_del_src"
      [] p = "rename_del_src" -> "rename_restore"
      [] p = "rename_restore" -> "done"

\* The order of the awaited commands of rename.
rename_order(p) ==
    CASE p = "rename_dump" -> "rename_pttl"
      [] p = "rename_pttl" -> "rename_del_dst"
      [] p = "rename_del_dst" -> "rename_restore"
      [] p = "rename_restore" -> "rename_del_src"
      [] p = "rename_del_src" -> "done"

\* A rename that drops the expiry.
rename_ttl_dropped(t) == 0

\* if ttl is None or ttl < 1: ttl = 0 (PTTL's reply is always an integer here:
\* -2 and -1 are its "no key" and "no expiry").
rename_ttl(t) == IF t < 1 THEN 0 ELSE t

\* src == dst raises before any command; otherwise DUMP src, and a missing
\* source raises "no such key".
rename_dump ==
    /\ UNCHANGED topology
    /\ pc = "rename_dump"
    /\ IF call.src = call.dst
       THEN /\ pc' = "raised"
            /\ ret' = Raised("ResponseError: same object", pc)
            /\ UNCHANGED <<store, call, log, ghost>>
       ELSE LET data == DUMP(store, call.src) IN
            /\ log' = Append(log, Cmd("DUMP", call.src))
            /\ call' = [call EXCEPT !.data = data]
            /\ IF data = None
               THEN /\ pc' = "raised"
                    /\ ret' = Raised("ResponseError: no such key", pc)
               ELSE /\ pc' = rename_order(pc)
                    /\ ret' = ret
            /\ UNCHANGED <<store, ghost>>

rename_pttl ==
    /\ UNCHANGED topology
    /\ pc = "rename_pttl"
    /\ log' = Append(log, Cmd("PTTL", call.src))
    /\ call' = [call EXCEPT !.ttl = rename_ttl(PTTL(store, call.src))]
    /\ pc' = rename_order(pc)
    /\ UNCHANGED <<store, ret, ghost>>

rename_del_dst ==
    /\ UNCHANGED topology
    /\ pc = "rename_del_dst"
    /\ log' = Append(log, Cmd("DEL", call.dst))
    /\ store' = DEL(store, call.dst)
    /\ pc' = rename_order(pc)
    /\ UNCHANGED <<call, ret, ghost>>

rename_restore ==
    /\ UNCHANGED topology
    /\ pc = "rename_restore"
    /\ log' = Append(log, Cmd("RESTORE", call.dst))
    /\ IF RESTORE_busy(store, call.dst)
       THEN /\ pc' = "raised"
            /\ ret' = Raised("ResponseError: BUSYKEY", pc)
            /\ UNCHANGED store
       ELSE /\ store' = RESTORE(store, call.dst, call.ttl, call.data)
            /\ pc' = rename_order(pc)
            /\ ret' = ret
    /\ UNCHANGED <<call, ghost>>

rename_del_src ==
    /\ UNCHANGED topology
    /\ pc = "rename_del_src"
    /\ log' = Append(log, Cmd("DEL", call.src))
    /\ store' = DEL(store, call.src)
    /\ pc' = rename_order(pc)
    /\ IF rename_order(pc) = "done" THEN ret' = Returned(TRUE) ELSE ret' = ret
    /\ UNCHANGED <<call, ghost>>

\* The awaited command raises or the task is cancelled at it: the command is
\* not applied and nothing else is issued.
rename_fail ==
    /\ UNCHANGED topology
    /\ pc \in rename_running
    /\ ~(pc = "rename_dump" /\ call.src = call.dst)
    /\ pc' = "raised"
    /\ ret' = Raised("ConnectionError", pc)
    /\ UNCHANGED <<store, call, log, ghost>>

RenameInit ==
    /\ store \in [RenameKeys -> RenameValues]
    /\ \E src \in RenameKeys, dst \in RenameKeys :
          call = [op |-> "rename", src |-> src, dst |-> dst, data |-> None, ttl |-> 0]
    /\ pc = "rename_dump"
    /\ log = <<>>
    /\ ret = NoReturn
    /\ topology = NoTopology
    /\ ghost = [store0 |-> store]

RenameNext ==
    \/ rename_dump
    \/ rename_pttl
    \/ rename_del_dst
    \/ rename_restore
    \/ rename_del_src
    \/ rename_fail

SpecRename == RenameInit /\ [][RenameNext]_vars

\* The case the rename claims are about: distinct keys, the source exists when
\* the call starts.
RenamePre == call.src # call.dst /\ Exists(ghost.store0, call.src)

SameContent(v, w) == v.type = w.type /\ v.val = w.val

\* The call was stopped at position p: the command at p was not applied.
StoppedAt(p) == pc = "raised" /\ ret.at = p

\* C1: during a cluster rename of an existing src to another key dst, stopped
\* at any of its steps or not at all, src and dst are never both absent; and
\* once RESTORE dst has succeeded and DEL src has not been applied, both keys
\* hold the same value.
C1_RenameNeverLosesBoth ==
    RenamePre =>
        /\ Exists(store, call.src) \/ Exists(store, call.dst)
        /\ (pc = "rename_del_src" \/ StoppedAt("rename_del_src")) =>
              /\ Exists(store, call.src)
              /\ SameContent(store[call.src], store[call.dst])

\* C1 witness: the call failed between RESTORE dst and DEL src, over a
\* destination that held something else.
C1_Witness ==
    /\ RenamePre
    /\ StoppedAt("rename_del_src")
    /\ Exists(ghost.store0, call.dst)
    /\ ~SameContent(ghost.store0[call.dst], ghost.store0[call.src])
    /\ SameContent(store[call.src], store[call.dst])

\* C2: a cluster rename whose steps all succeed returns True, leaves src
\* absent and dst holding what src held, with src's remaining PTTL as its
\* expiry when that is >= 1 and no expiry otherwise (RESTORE with ttl 0).
C2_RenameSuccess ==
    (RenamePre /\ pc = "done") =>
        LET old == ghost.store0[call.src] IN
        /\ ret = Returned(TRUE)
        /\ ~Exists(store, call.src)
        /\ SameContent(store[call.dst], old)
        /\ store[call.dst].ttl = (IF old.ttl >= 1 THEN old.ttl ELSE -1)
        /\ call.ttl = (IF old.ttl >= 1 THEN old.ttl ELSE 0)

\* C2 witness: a completed rename of a key with an expiry over an existing
\* destination with other content.
C2_Witness ==
    /\ RenamePre
    /\ pc = "done"
    /\ ghost.store0[call.src].ttl >= 1
    /\ Exists(ghost.store0, call.dst)
    /\ ghost.store0[call.dst].val # ghost.store0[call.src].val
    /\ store[call.dst].ttl = ghost.store0[call.src].ttl

\* The call raised the ResponseError with this message.
RenameRefused(message) ==
    pc = "raised" /\ ret.err = "ResponseError: " \o message

\* C28: the error paths of cluster rename leave the store unchanged.  With
\* src == dst the call raises ResponseError before any command is issued;
\* with another, nonexistent src it raises ResponseError (no such key) once
\* DUMP has replied, after the DUMP alone, so that dst is not deleted and
\* keeps its value.
C28_RenameErrorPaths ==
    /\ (call.src = call.dst /\ pc # "rename_dump") =>
          /\ RenameRefused("same object")
          /\ log = <<>>
          /\ store = ghost.store0
    /\ (call.src # call.dst /\ ~Exists(ghost.store0, call.src) /\ log # <<>>) =>
          /\ RenameRefused("no such key")
          /\ log = <<Cmd("DUMP", call.src)>>
          /\ store = ghost.store0

\* C28 witness: rename of a nonexistent src onto an existing dst was refused,
\* and dst still holds its value and expiry.
C28_Witness ==
    /\ call.op = "rename"
    /\ call.src # call.dst
    /\ RenameRefused("no such key")
    /\ Exists(store, call.dst)
    /\ store[call.dst] = ghost.store0[call.dst]
    /\ store[call.dst].ttl >= 1

----------------------------------------------------------------------------
(* ClusterKeysCommandMixin.renamenx                                        *)

\* EXISTS key: the number of the given keys that exist.
EXISTS(s, k) == IF Exists(s, k) THEN 1 ELSE 0

\* A renamenx that goes on to rename whatever EXISTS replied.
renamenx_proceeds_always(n) == TRUE

\* if not await self.exists(dst)
renamenx_proceeds(n) == n = 0

\* EXISTS dst; an existing destination returns False, otherwise the call
\* continues as rename(src, dst) and returns what that returns.
renamenx_exists ==
    /\ UNCHANGED topology
    /\ pc = "renamenx_exists"
    /\ log' = Append(log, Cmd("EXISTS", call.dst))
    /\ IF renamenx_proceeds(EXISTS(store, call.dst))
       THEN /\ pc' = "rename_dump"
            /\ ret' = ret
       ELSE /\ pc' = "done"
            /\ ret' = Returned(FALSE)
    /\ UNCHANGED <<store, call, ghost>>

\* EXISTS raises or the task is cancelled at it.
renamenx_fail ==
    /\ UNCHANGED topology
    /\ pc = "renamenx_exists"
    /\ pc' = "raised"
    /\ ret' = Raised("ConnectionError", pc)
    /\ UNCHANGED <<store, call, log, ghost>>

RenamenxInit ==
    /\ store \in [RenameKeys -> RenameValues]
    /\ \E src \in RenameKeys, dst \in RenameKeys :
          call = [op |-> "renamenx", src |-> src, dst |-> dst, data |-> None,
                  ttl |-> 0]
    /\ pc = "renamenx_exists"
    /\ log = <<>>
    /\ ret = NoReturn
    /\ topology = NoTopology
    /\ ghost = [store0 |-> store]

RenamenxNext ==
    \/ renamenx_exists
    \/ renamenx_fail
    \/ rename_dump
    \/ rename_pttl
    \/ rename_del_dst
    \/ rename_restore
    \/ rename_del_src
    \/ rename_fail

SpecRenamenx == RenamenxInit /\ [][RenamenxNext]_vars

\* The call ended and none of its awaited commands failed on the connection.
RenamenxEnded ==
    \/ pc = "done"
    \/ pc = "raised" /\ ret.err # "ConnectionError"

WriteCommands == {"DEL", "RESTORE"}

NoWriteIssued == \A i \in DOMAIN log : log[i].cmd \notin WriteCommands

\* The emulated rename of src to dst took place: src is gone and dst holds
\* what src held, with src's expiry.
RenamedTo ==
    LET old == ghost.store0[call.src] IN
    /\ ~Exists(store, call.src)
    /\ SameContent(store[call.dst], old)
    /\ store[call.dst].ttl = (IF old.ttl >= 1 THEN old.ttl ELSE -1)

\* C20 as stated: a cluster renamenx(src, dst) with no concurrent client
\* returns False, issues no write and leaves every key unchanged when dst
\* exists; when dst does not exist it renames src to dst and returns True.
C20_RenamenxAnySource ==
    RenamenxEnded =>
        IF Exists(ghost.store0, call.dst)
        THEN ret = Returned(FALSE) /\ NoWriteIssued /\ store = ghost.store0
        ELSE ret = Returned(TRUE) /\ RenamedTo

\* C20 amended: as C20, but a missing dst leads to the rename and True only
\* when src exists; when src does not exist either (which includes
\* src = dst), the call raises ResponseError and leaves every key unchanged.
C20_Renamenx ==
    RenamenxEnded =>
        IF Exists(ghost.store0, call.dst)
        THEN ret = Returned(FALSE) /\ NoWriteIssued /\ store = ghost.store0
        ELSE IF Exists(ghost.store0, call.src)
             THEN ret = Returned(TRUE) /\ RenamedTo
             ELSE /\ pc = "raised"
                  /\ ret.kind = "error"
                  /\ store = ghost.store0

\* C20 witness: a completed renamenx that moved a key with an expiry onto a
\* destination that did not exist.
C20_Witness ==
    /\ call.op = "renamenx"
    /\ pc = "done"
    /\ ret = Returned(TRUE)
    /\ ~Exists(ghost.store0, call.dst)
    /\ ghost.store0[call.src].ttl >= 1
    /\ store[call.dst].ttl = ghost.store0[call.src].ttl

----------------------------------------------------------------------------
(* renamenx while another client writes the destination                    *)

\* What the other client writes: a content no key starts with, so that its
\* value can be told from every other.
OtherClientValue == StringValue("z", -1)

\* Another client SETs dst, at any point before the call has ended.
other_client_sets_dst ==
    /\ UNCHANGED topology
    /\ pc \notin {"done", "raised"}
    /\ store[call.dst] # OtherClientValue
    /\ store' = [store EXCEPT ![call.dst] = OtherClientValue]
    /\ UNCHANGED <<call, pc, log, ret, ghost>>

ConcurrentRenamenxNext ==
    \/ RenamenxNext
    \/ other_client_sets_dst

SpecRenamenxConcurrent == RenamenxInit /\ [][ConcurrentRenamenxNext]_vars

\* dst holds the other client's value and this step takes it away.
DestroysOtherClientValue ==
    /\ store[call.dst] = OtherClientValue
    /\ store'[call.dst] # OtherClientValue

\* C29 as stated: whenever the second client SETs dst during a cluster
\* renamenx, no step of the call deletes or overwrites a value of dst that
\* this client wrote.
C29_NeverDestroysOtherValue == [][~DestroysOtherClientValue]_vars

\* C29 amended: renamenx never overwrites a value the second client wrote to
\* dst: a value written before the EXISTS check makes the call return False
\* with every key as it is, RESTORE onto a value written after DEL dst fails
\* (BUSYKEY) and leaves it, so that a call that returns True found dst absent
\* at its RESTORE; but a value written between the reply to EXISTS and DEL
\* dst is deleted by that DEL, the only step that takes such a value away.
C29_OnlyDelDstDestroys ==
    [][/\ DestroysOtherClientValue => pc = "rename_del_dst" /\ pc' = "rename_restore"
       /\ (pc = "renamenx_exists" /\ pc' # pc /\ store[call.dst] = OtherClientValue) =>
             /\ store' = store
             /\ pc' = "raised" \/ ret' = Returned(FALSE)
       /\ (pc = "rename_restore" /\ pc' = "rename_del_src") => ~Exists(store, call.dst)
       /\ (pc = "rename_restore" /\ store[call.dst] = OtherClientValue) =>
             store'[call.dst] = OtherClientValue]_vars

\* C29 witness: the second client wrote dst after the call's DEL dst, the
\* RESTORE was refused and dst holds that client's value.
C29_Witness ==
    /\ call.op = "renamenx"
    /\ pc = "raised"
    /\ ret.err = "ResponseError: BUSYKEY"
    /\ Len(log) = 5
    /\ store[call.dst] = OtherClientValue

----------------------------------------------------------------------------
(* ClusterSetsCommandMixin: sdiff, sinter, sunion and their store variants *)

\* SMEMBERS key through its response callback (lambda r: r and set(r) or
\* set()): the members, the empty set for a key that does not exist.
SMEMBERS(s, k) == IF Exists(s, k) THEN s[k].val ELSE {}

\* SADD key with no member is refused by the server (wrong number of
\* arguments), which execute_command raises as a ResponseError.
SADD_arity_error(members) == members = {}

\* Integer reply of SADD: the members that were not in the set yet.
SADD_reply(s, k, members) == Cardinality(members \ SMEMBERS(s, k))

\* SADD key member [member ...]
SADD(s, k, members) == [s EXCEPT ![k] = SetValue(SMEMBERS(s, k) \cup members)]

SetKeys == {"a{foo}", "b{foo}", "d{foo}"}

\* Memberships the operand and destination keys start with ({} is a key that
\* does not exist).
SetContents == {{}, {1}, {2, 3}, {1, 2, 3}}

\* Largest number of operand keys of one call.
MaxOperands == 2

KeyLists == UNION {[1 .. n -> SetKeys] : n \in 1 .. MaxOperands}

SetOps == {"sdiff", "sinter", "sunion"}

StoreOps == {"sdiffstore", "sinterstore", "sunionstore"}

\* The in-memory operation each method folds over its replies.
algebra_of(op) ==
    CASE op \in {"sdiff", "sdiffstore"} -> "diff"
      [] op \in {"sinter", "sinterstore"} -> "inter"
      [] op \in {"sunion", "sunionstore"} -> "union"

\* An intersection written with the difference's operator.
set_algebra_inter_as_diff(kind, res, m) ==
    CASE kind = "diff" -> res \ m
      [] kind = "inter" -> res \ m
      [] kind = "union" -> res \cup m

\* A difference taken the wrong way round.
set_algebra_diff_reversed(kind, res, m) ==
    CASE kind = "diff" -> m \ res
      [] kind = "inter" -> res \cap m
      [] kind = "union" -> res \cup m

\* res -= ..., res &= ..., res |= ...
set_algebra(kind, res, m) ==
    CASE kind = "diff" -> res \ m
      [] kind = "inter" -> res \cap m
      [] kind = "union" -> res \cup m

\* A store variant that forgets to delete the destination.
store_delete_skipped(s, k) == s

\* await self.delete(destination)
store_delete(s, k) == DEL(s, k)

\* What each store variant returns after its SADD: sinterstore len(res), the
\* other two the reply of SADD.
store_result(op, res, reply) == IF op = "sinterstore" THEN Cardinality(res) ELSE reply

\* Whether the store variant issues SADD for this result: sdiffstore and
\* sinterstore return 0 for an empty one, sunionstore always issues it.
store_issues_sadd(op, res) == op = "sunionstore" \/ res # {}

\* A loop that reads its first key again and again.
set_operand_first(keys, i) == keys[1]

\* keys[0], then each arg of keys[1:]
set_operand(keys, i) == keys[i]

set_new_call(op, keys, destination) ==
    [op |-> op, keys |-> keys, destination |-> destination, i |-> 1, res |-> {}]

\* res = await self.smembers(keys[0]); for arg in keys[1:]: res OP= await
\* self.smembers(arg).  After the last read sdiff/sinter/sunion return res.
set_smembers ==
    /\ UNCHANGED topology
    /\ pc = "smembers"
    /\ LET k == set_operand(call.keys, call.i)
           m == SMEMBERS(store, k)
           res == IF call.i = 1 THEN m ELSE set_algebra(algebra_of(call.op), call.res, m)
       IN
       /\ log' = Append(log, Cmd("SMEMBERS", k))
       /\ call' = [call EXCEPT !.i = call.i + 1, !.res = res]
       /\ IF call.i < Len(call.keys)
          THEN pc' = "smembers" /\ ret' = ret
          ELSE IF call.op \in StoreOps
               THEN pc' = "del_destination" /\ ret' = ret
               ELSE pc' = "done" /\ ret' = Returned(res)
    /\ UNCHANGED <<store, ghost>>

\* await self.delete(destination), then the test on res.
set_delete_destination ==
    /\ UNCHANGED topology
    /\ pc = "del_destination"
    /\ log' = Append(log, Cmd("DEL", call.destination))
    /\ store' = store_delete(store, call.destination)
    /\ IF store_issues_sadd(call.op, call.res)
       THEN pc' = "sadd" /\ ret' = ret
       ELSE pc' = "done" /\ ret' = Returned(0)
    /\ UNCHANGED <<call, ghost>>

\* await self.sadd(destination, *res)
set_sadd ==
    /\ UNCHANGED topology
    /\ pc = "sadd"
    /\ log' = Append(log, Cmd("SADD", call.destination))
    /\ IF SADD_arity_error(call.res)
       THEN /\ pc' = "raised"
            /\ ret' = Raised("ResponseError: wrong number of arguments", pc)
            /\ UNCHANGED store
       ELSE /\ store' = SADD(store, call.destination, call.res)
            /\ pc' = "done"
            /\ ret' = Returned(store_result(call.op, call.res,
                                            SADD_reply(store, call.destination, call.res)))
    /\ UNCHANGED <<call, ghost>>

\* An awaited command raises or the task is cancelled at it.
set_fail ==
    /\ UNCHANGED topology
    /\ pc \in {"smembers", "del_destination", "sadd"}
    /\ pc' = "raised"
    /\ ret' = Raised("ConnectionError", pc)
    /\ UNCHANGED <<store, call, log, ghost>>

\* The caller runs the same store operation a second time, nothing else
\* having touched the keys.
set_again ==
    /\ UNCHANGED topology
    /\ pc \in {"done", "raised"}
    /\ call.op \in StoreOps
    /\ ghost.run = "first"
    /\ ghost' = [store0 |-> store, run |-> "second", first |-> ghost.store0,
                 prev_ret |-> ret, prev_dest |-> SMEMBERS(store, call.destination)]
    /\ call' = set_new_call(call.op, call.keys, call.destination)
    /\ pc' = "smembers"
    /\ log' = <<>>
    /\ ret' = NoReturn
    /\ UNCHANGED store

SetsInit ==
    /\ \E f \in [SetKeys -> SetContents] :
          store = [k \in SetKeys |-> IF f[k] = {} THEN Absent ELSE SetValue(f[k])]
    /\ \E keys \in KeyLists :
          \/ \E op \in SetOps : call = set_new_call(op, keys, "")
          \/ \E op \in StoreOps, d \in SetKeys : call = set_new_call(op, keys, d)
    /\ pc = "smembers"
    /\ log = <<>>
    /\ ret = NoReturn
    /\ topology = NoTopology
    /\ ghost = [store0 |-> store, run |-> "first", first |-> store,
                prev_ret |-> NoReturn, prev_dest |-> {}]

SetsNext ==
    \/ set_smembers
    \/ set_delete_destination
    \/ set_sadd
    \/ set_fail
    \/ set_again

SpecSets == SetsInit /\ [][SetsNext]_vars

\* The set the native command computes over a keyspace s.
Operand(s, keys, i) == SMEMBERS(s, keys[i])

DiffOf(s, keys) ==
    {m \in Operand(s, keys, 1) : \A i \in 2 .. Len(keys) : m \notin Operand(s, keys, i)}

InterOf(s, keys) ==
    {m \in Operand(s, keys, 1) : \A i \in 1 .. Len(keys) : m \in Operand(s, keys, i)}

UnionOf(s, keys) == UNION {Operand(s, keys, i) : i \in 1 .. Len(keys)}

Expected(op, s, keys) ==
    CASE algebra_of(op) = "diff" -> DiffOf(s, keys)
      [] algebra_of(op) = "inter" -> InterOf(s, keys)
      [] algebra_of(op) = "union" -> UnionOf(s, keys)

\* Every SMEMBERS of the log comes before every DEL of it.
ReadsBeforeDelete ==
    \A i, j \in DOMAIN log :
        (log[i].cmd = "SMEMBERS" /\ log[j].cmd = "DEL") => i < j

\* The reads of the operands: one SMEMBERS per key, in argument order.
OperandReads(keys) == [i \in 1 .. Len(keys) |-> Cmd("SMEMBERS", keys[i])]

\* C3: cluster sdiffstore and sinterstore read every operand before DEL
\* destination, and when they return the destination holds exactly the
\* difference/intersection of the operands as they were at the call (absent
\* when it is empty) and the result is its cardinality, whatever the
\* destination held and also when it is one of the operands.
C3_DiffInterStore ==
    (call.op \in {"sdiffstore", "sinterstore"}) =>
        /\ ReadsBeforeDelete
        /\ pc \in {"del_destination", "sadd", "done"} =>
              SubSeq(log, 1, Len(call.keys)) = OperandReads(call.keys)
        /\ pc = "done" =>
              LET want == Expected(call.op, ghost.store0, call.keys) IN
              /\ SMEMBERS(store, call.destination) = want
              /\ Exists(store, call.destination) <=> want # {}
              /\ ret = Returned(Cardinality(want))

\* C3 witness: the scenario a{foo}={1,2,3}, b{foo}={2,3} stored into a d{foo}
\* that held members gives d{foo}={1} and returns 1.
C3_Witness ==
    /\ call.op = "sdiffstore"
    /\ call.keys = <<"a{foo}", "b{foo}">>
    /\ call.destination = "d{foo}"
    /\ ghost.run = "first"
    /\ SMEMBERS(ghost.store0, "a{foo}") = {1, 2, 3}
    /\ SMEMBERS(ghost.store0, "b{foo}") = {2, 3}
    /\ SMEMBERS(ghost.store0, "d{foo}") = {2, 3}
    /\ pc = "done"
    /\ SMEMBERS(store, "d{foo}") = {1}
    /\ ret = Returned(1)

\* A run that was not cut short by a connection error or a cancellation.
Completed(r) == r.kind = "value" \/ (r.kind = "error" /\ r.err # "ConnectionError")

\* Both runs of the store operation have completed.
RanTwice ==
    /\ call.op \in StoreOps
    /\ ghost.run = "second"
    /\ pc \in {"done", "raised"}
    /\ Completed(ret)
    /\ Completed(ghost.prev_ret)

\* sdiffstore whose destination is one of the keys it subtracts (and not the
\* key it subtracts from): the first run changes an operand of the second.
SubtractsDestination ==
    /\ call.op = "sdiffstore"
    /\ call.destination # call.keys[1]
    /\ \E i \in 2 .. Len(call.keys) : call.keys[i] = call.destination

\* C4 as claimed: the same store operation run twice in a row leaves the
\* destination with the same membership after the second run as after the
\* first, for every choice of operands and destination.
C4_StoreTwiceAnyDestination ==
    RanTwice => SMEMBERS(store, call.destination) = ghost.prev_dest

\* C4 amended: the same holds for sinterstore and sunionstore with any
\* destination, and for sdiffstore unless the destination is one of the
\* subtracted operands keys[1:] without being keys[0].
C4_StoreTwice ==
    (RanTwice /\ ~SubtractsDestination) =>
        SMEMBERS(store, call.destination) = ghost.prev_dest

\* C4 witness: sinterstore into its own second operand, whose first run
\* changed the destination, has run twice.
C4_Witness ==
    /\ RanTwice
    /\ call.op = "sinterstore"
    /\ Len(call.keys) = 2
    /\ call.destination = call.keys[2]
    /\ call.destination # call.keys[1]
    /\ ghost.prev_dest # {}
    /\ ghost.prev_dest # SMEMBERS(ghost.first, call.destination)
    /\ SMEMBERS(store, call.destination) = ghost.prev_dest

\* C5: cluster sdiff, sinter and sunion issue one SMEMBERS per key in
\* argument order and nothing else, and return the difference of the first
\* operand and the later ones, the intersection and the union of what the
\* keys hold; a missing key counts as the empty set.
C5_SetAlgebra ==
    (call.op \in SetOps) =>
        /\ Len(log) <= Len(call.keys)
        /\ log = SubSeq(OperandReads(call.keys), 1, Len(log))
        /\ pc = "done" =>
              /\ log = OperandReads(call.keys)
              /\ ret = Returned(Expected(call.op, ghost.store0, call.keys))

\* C5 witness: sdiff of an existing set and a missing key has returned the
\* whole first set.
C5_Witness ==
    /\ call.op = "sdiff"
    /\ Len(call.keys) = 2
    /\ call.keys[1] # call.keys[2]
    /\ Exists(ghost.store0, call.keys[1])
    /\ ~Exists(ghost.store0, call.keys[2])
    /\ pc = "done"
    /\ log = <<Cmd("SMEMBERS", call.keys[1]), Cmd("SMEMBERS", call.keys[2])>>
    /\ ret = Returned(SMEMBERS(ghost.store0, call.keys[1]))

\* C6 as claimed: cluster sunionstore, unless the connection fails, returns
\* the cardinality of the union and leaves the destination holding exactly
\* the union; for operands that are all empty or missing it returns 0 without
\* error and the destination is absent.
C6_SunionstoreTotal ==
    (call.op = "sunionstore") =>
        /\ pc = "raised" => ret.err = "ConnectionError"
        /\ pc = "done" =>
              LET want == UnionOf(ghost.store0, call.keys) IN
              /\ SMEMBERS(store, call.destination) = want
              /\ ret = Returned(Cardinality(want))

\* SREM key member: the member is removed, and the key with its last member.
SREM(s, k, member) ==
    LET m == SMEMBERS(s, k) \ {member} IN
    [s EXCEPT ![k] = IF m = {} THEN Absent ELSE SetValue(m)]

\* The members another client adds or removes: one the sets may hold, one
\* they never hold at the start.
OtherMembers == {1, 4}

\* Another client adds a member to, or removes one from, an operand key the
\* call has read and will not read again, before the call completes.
other_client_mutates(k) ==
    /\ UNCHANGED topology
    /\ pc \in {"smembers", "del_destination", "sadd"}
    /\ \E i \in 1 .. call.i - 1 : call.keys[i] = k
    /\ \A i \in call.i .. Len(call.keys) : call.keys[i] # k
    /\ \E member \in OtherMembers :
          \/ store' = SADD(store, k, {member})
          \/ store' = SREM(store, k, member)
    /\ store' # store
    /\ ghost' = [ghost EXCEPT !.mutated = @ \cup {k}]
    /\ UNCHANGED <<call, pc, log, ret>>

ConcurrentSetsInit ==
    /\ \E f \in [SetKeys -> SetContents] :
          store = [k \in SetKeys |-> IF f[k] = {} THEN Absent ELSE SetValue(f[k])]
    /\ \E keys \in KeyLists :
          \/ \E op \in SetOps : call = set_new_call(op, keys, "")
          \/ \E op \in StoreOps, d \in SetKeys : call = set_new_call(op, keys, d)
    /\ pc = "smembers"
    /\ log = <<>>
    /\ ret = NoReturn
    /\ topology = NoTopology
    /\ ghost = [store0 |-> store, run |-> "first", mutated |-> {}]

ConcurrentSetsNext ==
    \/ set_smembers
    \/ set_delete_destination
    \/ set_sadd
    \/ set_fail
    \/ \E k \in SetKeys : other_client_mutates(k)

SpecSetsConcurrent == ConcurrentSetsInit /\ [][ConcurrentSetsNext]_vars

\* The call is over, not cut short by a connection error, and another
\* client has changed an operand after it was read.
MutatedAndOver ==
    /\ ghost.mutated # {}
    /\ pc \in {"done", "raised"}
    /\ Completed(ret)

\* C17: when another client has added or removed members of an operand key
\* after the call read it and before the call completed, sdiff, sinter,
\* sunion and their store variants raise no error, and the result, and the
\* destination of a store variant, are those of the memberships the call
\* read: nothing of the later change shows.
C17_MutationNotObserved ==
    (call.op \in SetOps \cup StoreOps /\ MutatedAndOver) =>
        LET want == Expected(call.op, ghost.store0, call.keys) IN
        /\ pc = "done"
        /\ call.op \in SetOps => ret = Returned(want)
        /\ call.op \in StoreOps =>
              /\ ret = Returned(Cardinality(want))
              /\ SMEMBERS(store, call.destination) = want

----------------------------------------------------------------------------
(* ClusterSetsCommandMixin.smove                                           *)

\* Integer reply of SREM key member: 1 when the member was removed.
SREM_reply(s, k, member) == IF member \in SMEMBERS(s, k) THEN 1 ELSE 0

\* An smove that adds the member to the destination whatever SREM replied.
smove_adds_always(res) == TRUE

\* if res == 1
smove_adds(res) == res = 1

\* res = await self.srem(source, member); without the member, return res
smove_srem ==
    /\ UNCHANGED topology
    /\ pc = "smove_srem"
    /\ LET res == SREM_reply(store, call.source, call.member) IN
       /\ log' = Append(log, Cmd("SREM", call.source))
       /\ store' = SREM(store, call.source, call.member)
       /\ call' = [call EXCEPT !.res = res]
       /\ IF smove_adds(res)
          THEN pc' = "smove_sadd" /\ ret' = ret
          ELSE pc' = "done" /\ ret' = ReturnedAs("int", res)
    /\ UNCHANGED ghost

\* await self.sadd(destination, member); return res
smove_sadd ==
    /\ UNCHANGED topology
    /\ pc = "smove_sadd"
    /\ log' = Append(log, Cmd("SADD", call.destination))
    /\ store' = SADD(store, call.destination, {call.member})
    /\ pc' = "done"
    /\ ret' = ReturnedAs("int", call.res)
    /\ UNCHANGED <<call, ghost>>

\* An awaited command raises or the task is cancelled at it.
smove_fail ==
    /\ UNCHANGED topology
    /\ pc \in {"smove_srem", "smove_sadd"}
    /\ pc' = "raised"
    /\ ret' = Raised("ConnectionError", pc)
    /\ UNCHANGED <<store, call, log, ghost>>

SmoveInit ==
    /\ \E f \in [SetKeys -> SetContents] :
          store = [k \in SetKeys |-> IF f[k] = {} THEN Absent ELSE SetValue(f[k])]
    /\ \E source \in SetKeys, destination \in SetKeys, member \in OtherMembers :
          call = [op |-> "smove", source |-> source, destination |-> destination,
                  member |-> member, res |-> 0]
    /\ pc = "smove_srem"
    /\ log = <<>>
    /\ ret = NoReturn
    /\ topology = NoTopology
    /\ ghost = [store0 |-> store]

SmoveNext ==
    \/ smove_srem
    \/ smove_sadd
    \/ smove_fail

SpecSmove == SmoveInit /\ [][SmoveNext]_vars

\* The member belonged to source when the call started.
WasMember == call.member \in SMEMBERS(ghost.store0, call.source)

NotMoved ==
    /\ ret = ReturnedAs("int", 0)
    /\ \A i \in DOMAIN log : log[i].cmd # "SADD"
    /\ store = ghost.store0

\* C21 as stated: after a cluster smove with no concurrent client, a member
\* that belonged to source is not in source, is in destination, and the call
\* has returned 1; for a member that did not belong to source the call has
\* returned 0, issued no SADD and left both sets unchanged.
C21_SmoveAnyKeys ==
    pc = "done" =>
        IF WasMember
        THEN /\ call.member \notin SMEMBERS(store, call.source)
             /\ call.member \in SMEMBERS(store, call.destination)
             /\ ret = ReturnedAs("int", 1)
        ELSE NotMoved

\* C21 amended: as C21 for a destination other than source; with source
\* itself as destination a member of it is removed and added again, so that
\* it is still in the set, and the call returns 1.
C21_Smove ==
    pc = "done" =>
        IF WasMember
        THEN /\ call.source # call.destination =>
                   call.member \notin SMEMBERS(store, call.source)
             /\ call.member \in SMEMBERS(store, call.destination)
             /\ ret = ReturnedAs("int", 1)
        ELSE NotMoved

\* C21 witness: the only member of source was moved to another, existing set:
\* source is gone and destination has one member more.
C21_Witness ==
    /\ pc = "done"
    /\ WasMember
    /\ call.source # call.destination
    /\ ~Exists(store, call.source)
    /\ Exists(ghost.store0, call.destination)
    /\ SMEMBERS(store, call.destination) =
          SMEMBERS(ghost.store0, call.destination) \cup {call.member}
    /\ call.member \notin SMEMBERS(ghost.store0, call.destination)

----------------------------------------------------------------------------
(* ClusterHyperLogCommandMixin.pfmerge                                     *)

\* A key "{tag}name"; a key without hash tag has tag "".
Key(tag, name) == [tag |-> tag, name |-> name]

NoKey == Key("", "")

\* The slot of a key depends on its hash tag alone when it has one, on the
\* whole key otherwise.
KeySlot(k) == IF k.tag # "" THEN <<"tag", k.tag>> ELSE <<"key", k.name>>

\* The ids _random_id draws (16 characters of A-Z0-9 in the code).
RandomIds == {"A", "B", "C"}

\* f"{{hashslot}}{self._random_id()}": the doubled braces are literal, so the
\* key is the text "{hashslot}" followed by the random id, whatever the
\* hashslot argument is.
random_good_hashslot_key(hashslot, random_id) == Key("hashslot", random_id)

PfUserKeys == {Key("", "src1"), Key("", "src2"), Key("", "dest")}

PfTempKeys == {random_good_hashslot_key(h, r) : h \in RandomIds, r \in RandomIds}

PfKeys == PfUserKeys \cup PfTempKeys

\* The string holding a HyperLogLog that has observed the elements obs.
HLL(obs) == [hll |-> TRUE, obs |-> obs, text |-> "HYLL"]

\* Any other string.
Text(t) == [hll |-> FALSE, obs |-> {}, text |-> t]

\* GET key: the string, None for a key that does not exist.
GET(s, k) == IF Exists(s, k) THEN s[k].val ELSE None

\* What the connection sends for a value: None goes out as the text "None"
\* when the encoder accepts it.
encode(v) == IF v = None THEN Text("None") ELSE v

\* SET key value
SET(s, k, v) == [s EXCEPT ![k] = StringValue(encode(v), -1)]

\* A test that takes every destination for empty.
truthy_never(v) == FALSE

\* if dest_data: neither None nor the empty string.
truthy(v) == v # None /\ v.text # ""

\* PFMERGE refuses keys of different slots.
PFMERGE_crossslot(dst, srcs) == \E k \in srcs : KeySlot(k) # KeySlot(dst)

\* PFMERGE refuses a key that holds something else than a HyperLogLog.
PFMERGE_wrongtype(s, dst, srcs) ==
    \E k \in srcs \cup {dst} : Exists(s, k) /\ ~s[k].val.hll

\* PFMERGE destkey sourcekey...: destkey becomes the merge of the sources and
\* of what destkey held.
PFMERGE(s, dst, srcs) ==
    [s EXCEPT ![dst] =
        StringValue(HLL(UNION {s[k].val.obs : k \in {x \in srcs \cup {dst} : Exists(s, x)}}), -1)]

\* Largest number of source keys of one call.
MaxSources == 2

PfSourceLists == UNION {[1 .. n -> PfUserKeys] : n \in 0 .. MaxSources}

Range(f) == {f[i] : i \in DOMAIN f}

pf_running == {"pf_get_source", "pf_get_dest", "pf_set_tmp", "pf_merge",
               "pf_get_tmp", "pf_set_dest", "pf_del_tmp_dest", "pf_del_tmp"}

\* A cleanup that stops one temporary key short.
pf_cleanup_keys_short(all_k) == SubSeq(all_k, 1, Len(all_k) - 1)

\* for k in all_k: await self.delete(k)
pf_cleanup_keys(all_k) == all_k

\* An error path that deletes the temporary keys written so far.
pf_on_error_cleanup(s, all_k) == [k \in DOMAIN s |-> IF k \in Range(all_k) THEN Absent ELSE s[k]]

\* No try/finally around the steps: an exception leaves the keyspace as it is.
pf_on_error(s, all_k) == s

pf_new_call(destkey, sourcekeys) ==
    [op |-> "pfmerge", destkey |-> destkey, sourcekeys |-> sourcekeys,
     i |-> 1, all_hll_objects |-> <<>>, random_hash_slot |-> "",
     all_k |-> <<>>, j |-> 0, tmp_dest |-> NoKey, parsed_dest |-> None, d |-> 1]

pf_first_pc(sourcekeys) == IF Len(sourcekeys) = 0 THEN "pf_get_dest" ELSE "pf_get_source"

\* for hll_key in sourcekeys: all_hll_objects.append(await self.get(hll_key))
pf_get_source ==
    /\ UNCHANGED topology
    /\ pc = "pf_get_source"
    /\ LET k == call.sourcekeys[call.i] IN
       /\ log' = Append(log, Cmd("GET", k))
       /\ call' = [call EXCEPT !.i = call.i + 1,
                               !.all_hll_objects = Append(call.all_hll_objects, GET(store, k))]
       /\ pc' = IF call.i < Len(call.sourcekeys) THEN "pf_get_source" ELSE "pf_get_dest"
    /\ UNCHANGED <<store, ret, ghost>>

\* random_hash_slot = self._random_id(); dest_data = await self.get(destkey);
\* if dest_data: all_hll_objects.append(dest_data)
pf_get_dest ==
    /\ UNCHANGED topology
    /\ pc = "pf_get_dest"
    /\ \E random_id \in RandomIds :
          LET dest_data == GET(store, call.destkey)
              objects == IF truthy(dest_data)
                         THEN Append(call.all_hll_objects, dest_data)
                         ELSE call.all_hll_objects
          IN
          /\ log' = Append(log, Cmd("GET", call.destkey))
          /\ call' = [call EXCEPT !.random_hash_slot = random_id,
                                  !.all_hll_objects = objects]
          /\ pc' = IF Len(objects) = 0 THEN "pf_merge" ELSE "pf_set_tmp"
    /\ UNCHANGED <<store, ret, ghost>>

\* for hll_object in all_hll_objects: k = self._random_good_hashslot_key(...);
\* all_k.append(k); await self.set(k, hll_object).  A None object (a source
\* that does not exist) is either refused by the encoder or sent as "None".
pf_set_tmp ==
    /\ UNCHANGED topology
    /\ pc = "pf_set_tmp"
    /\ \E random_id \in RandomIds :
          LET k == random_good_hashslot_key(call.random_hash_slot, random_id)
              object == call.all_hll_objects[call.j + 1]
          IN
          \E refused \in (IF object = None THEN BOOLEAN ELSE {FALSE}) :
             /\ log' = Append(log, Cmd("SET", k))
             /\ IF refused
                THEN /\ call' = [call EXCEPT !.all_k = Append(call.all_k, k)]
                     /\ store' = pf_on_error(store, call.all_k)
                     /\ pc' = "raised"
                     /\ ret' = Raised("DataError", pc)
                ELSE /\ call' = [call EXCEPT !.all_k = Append(call.all_k, k),
                                             !.j = call.j + 1]
                     /\ store' = SET(store, k, object)
                     /\ pc' = IF call.j + 1 < Len(call.all_hll_objects)
                              THEN "pf_set_tmp" ELSE "pf_merge"
                     /\ ret' = ret
    /\ UNCHANGED ghost

\* tmp_dest = self._random_good_hashslot_key(random_hash_slot);
\* await self.execute_command("PFMERGE", tmp_dest, *all_k)
pf_merge ==
    /\ UNCHANGED topology
    /\ pc = "pf_merge"
    /\ \E random_id \in RandomIds :
          LET tmp_dest == random_good_hashslot_key(call.random_hash_slot, random_id)
              srcs == Range(call.all_k)
          IN
          /\ log' = Append(log, Cmd("PFMERGE", tmp_dest))
          /\ call' = [call EXCEPT !.tmp_dest = tmp_dest]
          /\ IF PFMERGE_crossslot(tmp_dest, srcs)
             THEN /\ store' = pf_on_error(store, call.all_k)
                  /\ pc' = "raised"
                  /\ ret' = Raised("ResponseError: CROSSSLOT", pc)
             ELSE IF PFMERGE_wrongtype(store, tmp_dest, srcs)
             THEN /\ store' = pf_on_error(store, call.all_k)
                  /\ pc' = "raised"
                  /\ ret' = Raised("ResponseError: WRONGTYPE", pc)
             ELSE /\ store' = PFMERGE(store, tmp_dest, srcs)
                  /\ pc' = "pf_get_tmp"
                  /\ ret' = ret
    /\ UNCHANGED ghost

\* parsed_dest = await self.get(tmp_dest)
pf_get_tmp ==
    /\ UNCHANGED topology
    /\ pc = "pf_get_tmp"
    /\ log' = Append(log, Cmd("GET", call.tmp_dest))
    /\ call' = [call EXCEPT !.parsed_dest = GET(store, call.tmp_dest)]
    /\ pc' = "pf_set_dest"
    /\ UNCHANGED <<store, ret, ghost>>

\* await self.set(destkey, parsed_dest)
pf_set_dest ==
    /\ UNCHANGED topology
    /\ pc = "pf_set_dest"
    /\ log' = Append(log, Cmd("SET", call.destkey))
    /\ store' = SET(store, call.destkey, call.parsed_dest)
    /\ pc' = "pf_del_tmp_dest"
    /\ UNCHANGED <<call, ret, ghost>>

\* await self.delete(tmp_dest)
pf_del_tmp_dest ==
    /\ UNCHANGED topology
    /\ pc = "pf_del_tmp_dest"
    /\ log' = Append(log, Cmd("DEL", call.tmp_dest))
    /\ store' = DEL(store, call.tmp_dest)
    /\ IF Len(pf_cleanup_keys(call.all_k)) = 0
       THEN pc' = "done" /\ ret' = Returned(TRUE)
       ELSE pc' = "pf_del_tmp" /\ ret' = ret
    /\ UNCHANGED <<call, ghost>>

\* for k in all_k: await self.delete(k); return True
pf_del_tmp ==
    /\ UNCHANGED topology
    /\ pc = "pf_del_tmp"
    /\ LET keys == pf_cleanup_keys(call.all_k)
           k == keys[call.d]
       IN
       /\ log' = Append(log, Cmd("DEL", k))
       /\ store' = DEL(store, k)
       /\ call' = [call EXCEPT !.d = call.d + 1]
       /\ IF call.d < Len(keys)
          THEN pc' = "pf_del_tmp" /\ ret' = ret
          ELSE pc' = "done" /\ ret' = Returned(TRUE)
    /\ UNCHANGED ghost

\* An awaited command raises or the task is cancelled at it.
pf_fail ==
    /\ UNCHANGED topology
    /\ pc \in pf_running
    /\ store' = pf_on_error(store, call.all_k)
    /\ pc' = "raised"
    /\ ret' = Raised("ConnectionError", pc)
    /\ UNCHANGED <<call, log, ghost>>

\* What a key may hold when the call starts.  A temporary key can be there
\* already: one that an earlier, failed pfmerge left behind.
PfInitialValues(k) ==
    IF k = Key("", "src1") THEN {Absent, StringValue(HLL({1}), -1)}
    ELSE IF k = Key("", "src2") THEN {Absent, StringValue(HLL({2}), -1)}
    ELSE IF k = Key("", "dest") THEN {Absent, StringValue(Text(""), -1), StringValue(HLL({3}), -1)}
    ELSE IF k = Key("hashslot", "A") THEN {Absent, StringValue(HLL({1}), -1)}
    ELSE {Absent}

PfInitFor(lists) ==
    /\ \E v1 \in PfInitialValues(Key("", "src1")), v2 \in PfInitialValues(Key("", "src2")),
          v3 \in PfInitialValues(Key("", "dest")), v4 \in PfInitialValues(Key("hashslot", "A")) :
          store = [k \in PfKeys |->
                      IF k = Key("", "src1") THEN v1
                      ELSE IF k = Key("", "src2") THEN v2
                      ELSE IF k = Key("", "dest") THEN v3
                      ELSE IF k = Key("hashslot", "A") THEN v4
                      ELSE Absent]
    /\ \E sourcekeys \in lists :
          /\ call = pf_new_call(Key("", "dest"), sourcekeys)
          /\ pc = pf_first_pc(sourcekeys)
    /\ log = <<>>
    /\ ret = NoReturn
    /\ topology = NoTopology
    /\ ghost = [store0 |-> store]

PfInit == PfInitFor(PfSourceLists)

PfNext ==
    \/ pf_get_source
    \/ pf_get_dest
    \/ pf_set_tmp
    \/ pf_merge
    \/ pf_get_tmp
    \/ pf_set_dest
    \/ pf_del_tmp_dest
    \/ pf_del_tmp
    \/ pf_fail

SpecPfmerge == PfInit /\ [][PfNext]_vars

\* The temporary keys the call has generated and used in a command.
GeneratedKeys ==
    Range(call.all_k) \cup (IF call.tmp_dest = NoKey THEN {} ELSE {call.tmp_dest})

\* The random ids of the call differ from one another and from every key that
\* existed when the call started.
NoCollision ==
    /\ \A i, j \in DOMAIN call.all_k : i # j => call.all_k[i] # call.all_k[j]
    /\ call.tmp_dest \notin Range(call.all_k)
    /\ \A k \in GeneratedKeys : ~Exists(ghost.store0, k)

Issued(c) == \E i \in DOMAIN log : log[i] = c

\* C7: when cluster pfmerge returns True, every temporary key it wrote (one
\* per merged object, and the temporary merge destination) has been deleted:
\* no key the call created exists any more, except destkey.
C7_PfmergeCleansUp ==
    (pc = "done") =>
        /\ ret = Returned(TRUE)
        /\ \A k \in GeneratedKeys : ~Exists(store, k)
        /\ \A k \in PfKeys :
              (Exists(store, k) /\ ~Exists(ghost.store0, k)) => k = call.destkey

\* C7 witness: a pfmerge of two objects under three different temporary keys
\* has returned, and destkey holds the merge.
C7_Witness ==
    /\ pc = "done"
    /\ Len(call.all_k) = 2
    /\ NoCollision
    /\ Issued(Cmd("SET", call.all_k[1]))
    /\ Issued(Cmd("SET", call.all_k[2]))
    /\ Issued(Cmd("PFMERGE", call.tmp_dest))
    /\ \A k \in GeneratedKeys : ~Exists(store, k)
    /\ Exists(store, call.destkey)

\* C8 as claimed: every temporary key of one pfmerge call carries one shared
\* hash tag whose content is the random id the call chose (random_hash_slot),
\* so that they all map to one slot.
C8_TempKeysTaggedByRandomId ==
    \A k \in GeneratedKeys :
        /\ k.tag = call.random_hash_slot
        /\ \A other \in GeneratedKeys : KeySlot(k) = KeySlot(other)

\* The temporary keys whose cleanup DEL a stopped call had already applied:
\* the first d - 1 when it stopped in the per-key cleanup, none before that.
CleanedUp == IF StoppedAt("pf_del_tmp") THEN call.d - 1 ELSE 0

DestWritten == pc = "raised" /\ ret.at \in {"pf_del_tmp_dest", "pf_del_tmp"}

Copy(i) == StringValue(encode(call.all_hll_objects[i]), -1)

\* C9 as claimed (the random ids not colliding): when a step of pfmerge fails
\* after j temporary keys have been SET, all j remain, holding the copied
\* values, and no DEL was issued for them; the source keys are unchanged;
\* destkey is unchanged unless the failing step comes after SET destkey.
C9_FailureKeepsEveryTempKey ==
    (pc = "raised" /\ NoCollision) =>
        /\ \A i \in 1 .. call.j :
              /\ store[call.all_k[i]] = Copy(i)
              /\ ~Issued(Cmd("DEL", call.all_k[i]))
        /\ \A k \in Range(call.sourcekeys) : store[k] = ghost.store0[k]
        /\ ~DestWritten => store[call.destkey] = ghost.store0[call.destkey]

\* C9 amended: when a step of pfmerge fails after j temporary keys have been
\* SET (the random ids not colliding), the temporary keys that the call's own
\* cleanup had not deleted before the failing step remain, holding the copied
\* values, and no DEL was issued for them: all j of them unless the call
\* stopped inside the per-key cleanup.  The source keys other than destkey are
\* unchanged and destkey is unchanged unless the failing step comes after SET
\* destkey.  A call never deletes or rewrites a temporary key of an earlier
\* call, unless it draws the same key itself.
C9_FailureKeepsTempKeys ==
    /\ (pc = "raised" /\ NoCollision) =>
          /\ \A i \in 1 .. call.j :
                IF i > CleanedUp
                THEN /\ store[call.all_k[i]] = Copy(i)
                     /\ ~Issued(Cmd("DEL", call.all_k[i]))
                ELSE ~Exists(store, call.all_k[i])
          /\ \A k \in Range(call.sourcekeys) \ {call.destkey} : store[k] = ghost.store0[k]
          /\ ~DestWritten => store[call.destkey] = ghost.store0[call.destkey]
    /\ \A k \in PfTempKeys \ GeneratedKeys : store[k] = ghost.store0[k]

\* C9 witness: the call was stopped at PFMERGE after two temporary keys were
\* SET; both are in the store, and so is the temporary key an earlier call
\* had left.
C9_Witness ==
    /\ StoppedAt("pf_merge")
    /\ call.j = 2
    /\ NoCollision
    /\ \A i \in 1 .. 2 : Exists(store, call.all_k[i]) /\ store[call.all_k[i]] = Copy(i)
    /\ \E k \in PfTempKeys \ GeneratedKeys : Exists(store, k)

----------------------------------------------------------------------------
(* ClusterListsCommandMixin.sort                                           *)

\* Strings of decimal digits, as sequences of digits: <<1, 0>> is "10".
SortElements == {<<1>>, <<9>>, <<1, 0>>}

\* The values the BY keys hold; <<>> stands for a BY key that does not exist.
SortWeights == {<<>>, <<9>>, <<1, 0>>}

\* A key of the sort model: pat "key" is the sorted key, "dst" the store
\* destination, and a BY pattern with its "*" replaced by arg otherwise.
SortKeyOf(pat, arg) == [pat |-> pat, arg |-> arg]

SourceKey == SortKeyOf("key", <<>>)

DstKey == SortKeyOf("dst", <<>>)

\* store=None, by=None
NoArg == SortKeyOf("", <<>>)

\* The BY patterns tried: a plain key pattern and a hash field pattern.
ByPatterns == {"w_*", "h_*->f"}

SortKeys ==
    {SourceKey, DstKey} \cup {SortKeyOf(by, e) : by \in ByPatterns, e \in SortElements}

\* Longest list sorted.
MaxLen == 2

SortLists == UNION {[1 .. n -> SortElements] : n \in 1 .. MaxLen}

\* A hash with the one field f.
HashValue(v) == [type |-> "hash", val |-> v, ttl |-> -1]

\* TYPE key
TYPE(s, k) == s[k].type

\* LRANGE key 0 -1
LRANGE(s, k) == IF Exists(s, k) THEN s[k].val ELSE <<>>

\* HGET key field, for the field f.
HGET(s, k) == IF Exists(s, k) THEN s[k].val ELSE None

\* RPUSH key with no element is refused by the server.
RPUSH_arity_error(elements) == elements = <<>>

\* RPUSH key element [element ...]
RPUSH(s, k, elements) == [s EXCEPT ![k] = ListValue(LRANGE(s, k) \o elements)]

\* float(arg) of a string of digits.
RECURSIVE strtod(_)
strtod(arg) ==
    IF arg = <<>> THEN 0
    ELSE 10 * strtod(SubSeq(arg, 1, Len(arg) - 1)) + arg[Len(arg)]

\* a < b for two strings, as Python compares bytes and str.
RECURSIVE LexLess(_, _)
LexLess(a, b) ==
    IF b = <<>> THEN FALSE
    ELSE IF a = <<>> THEN TRUE
    ELSE IF Head(a) # Head(b) THEN Head(a) < Head(b)
    ELSE LexLess(Tail(a), Tail(b))

\* The comparison of two sort keys under a way of comparing.
KeyLess(compare, a, b) ==
    IF compare = "numeric" THEN strtod(a) < strtod(b) ELSE LexLess(a, b)

\* Python's sorted(): stable, pairs <<element, key>> ordered by key alone.
RECURSIVE sorted(_, _)
sorted(pairs, compare) ==
    IF pairs = <<>> THEN <<>>
    ELSE LET rest == sorted(SubSeq(pairs, 1, Len(pairs) - 1), compare)
             x == pairs[Len(pairs)]
             \* x goes after every element that is not greater than it
             pos == Cardinality({i \in DOMAIN rest : ~KeyLess(compare, x[2], rest[i][2])})
         IN SubSeq(rest, 1, pos) \o <<x>> \o SubSeq(rest, pos + 1, Len(rest))

\* All the orders list(set) can give.
Perms(S) == {f \in [1 .. Cardinality(S) -> S] : \A e \in S : \E i \in DOMAIN f : f[i] = e}

Reverse(l) == [i \in DOMAIN l |-> l[Len(l) + 1 - i]]

\* data[offset : offset + count] for offset, count >= 0
Slice(l, offset, count) ==
    LET last == IF offset + count < Len(l) THEN offset + count ELSE Len(l)
    IN SubSeq(l, offset + 1, last)

is_hash_pattern(by) == by = "h_*->f"

\* The comparison the claim describes for a BY pattern: numeric unless alpha.
sort_compare_by_alpha(by, alpha) == IF alpha THEN "lexical" ELSE "numeric"

\* How the keys are compared.  Without BY: data.sort(key=float) unless alpha.
\* With BY on a hash field: float(v) unless alpha.  With BY on a plain key:
\* _by_key returns the value of GET as it is, and sorted() compares strings.
sort_compare(by, alpha) ==
    IF by = NoArg.pat \/ is_hash_pattern(by)
    THEN (IF alpha THEN "lexical" ELSE "numeric")
    ELSE "lexical"

\* The sort, the order and the slice, which run without awaiting.
sort_in_memory(c, data, keys) ==
    LET pairs == [i \in DOMAIN data |-> <<data[i], keys[i]>>]
        s == sorted(pairs, sort_compare(c.by, c.alpha))
        ordered == [i \in DOMAIN s |-> s[i][1]]
        directed == IF c.desc THEN Reverse(ordered) ELSE ordered
    IN IF c.sliced THEN Slice(directed, c.offset, c.count) ELSE directed

\* sorted() raises TypeError when it has to compare a None key.
sort_type_error(keys) == Len(keys) >= 2 /\ \E i \in DOMAIN keys : keys[i] = <<>>

sort_new_call(by, alpha, desc, sliced, offset, count, dst) ==
    [op |-> "sort", key |-> SourceKey, by |-> by, alpha |-> alpha, desc |-> desc,
     sliced |-> sliced, offset |-> offset, count |-> count, store |-> dst,
     data_type |-> "", data |-> <<>>, keys |-> <<>>]

\* data_type = b(await self.type(key))
sort_type ==
    /\ UNCHANGED topology
    /\ pc = "sort_type"
    /\ log' = Append(log, Cmd("TYPE", call.key))
    /\ LET data_type == TYPE(store, call.key) IN
       /\ call' = [call EXCEPT !.data_type = data_type]
       /\ IF data_type = "none"
          THEN pc' = "done" /\ ret' = ReturnedAs("list", <<>>)
          ELSE IF data_type \in {"set", "list"}
          THEN pc' = "sort_fetch" /\ ret' = ret
          ELSE pc' = "raised" /\ ret' = Raised("RedisClusterException: Unable to sort data type", pc)
    /\ UNCHANGED <<store, ghost>>

\* What follows the in-memory part: the store branch or the return.
sort_continue(c, data, keys) ==
    IF sort_type_error(keys)
    THEN /\ call' = [c EXCEPT !.data = data, !.keys = keys]
         /\ pc' = "raised"
         /\ ret' = Raised("TypeError", pc)
    ELSE LET result == sort_in_memory(c, data, keys) IN
         /\ call' = [c EXCEPT !.data = result, !.keys = keys]
         /\ IF c.store # NoArg
            THEN pc' = "sort_del_store" /\ ret' = ret
            ELSE pc' = "done" /\ ret' = ReturnedAs("list", result)

\* data = list(await self.smembers(key))[:] or await self.lrange(key, 0, -1);
\* without BY the sort follows at once.
sort_fetch ==
    /\ UNCHANGED topology
    /\ pc = "sort_fetch"
    /\ \E data \in (IF call.data_type = "set"
                    THEN Perms(SMEMBERS(store, call.key))
                    ELSE {LRANGE(store, call.key)}) :
          /\ log' = Append(log, Cmd(IF call.data_type = "set" THEN "SMEMBERS" ELSE "LRANGE",
                                    call.key))
          /\ IF call.by # NoArg.pat /\ data # <<>>
             THEN /\ call' = [call EXCEPT !.data = data]
                  /\ pc' = "sort_by_key"
                  /\ ret' = ret
             ELSE sort_continue(call, data, data)
    /\ UNCHANGED <<store, ghost>>

\* for d in data: sorted_data.append((d, await _by_key(d))): one HGET or GET
\* per element; after the last one the sort.
sort_by_key ==
    /\ UNCHANGED topology
    /\ pc = "sort_by_key"
    /\ LET d == call.data[Len(call.keys) + 1]
           k == SortKeyOf(call.by, d)
           reply == IF is_hash_pattern(call.by) THEN HGET(store, k) ELSE GET(store, k)
           \* the reply is None exactly when the key does not exist
           is_none == ~Exists(store, k)
           v == IF is_none THEN <<>> ELSE reply
           keys == Append(call.keys, v)
       IN
       /\ log' = Append(log, Cmd(IF is_hash_pattern(call.by) THEN "HGET" ELSE "GET", k))
       /\ IF is_hash_pattern(call.by) /\ ~call.alpha /\ is_none
          THEN /\ pc' = "raised"
               /\ ret' = Raised("TypeError", pc)
               /\ call' = call
          ELSE IF Len(keys) < Len(call.data)
          THEN /\ call' = [call EXCEPT !.keys = keys]
               /\ pc' = "sort_by_key"
               /\ ret' = ret
          ELSE sort_continue(call, call.data, keys)
    /\ UNCHANGED <<store, ghost>>

\* await self.delete(store)
sort_del_store ==
    /\ UNCHANGED topology
    /\ pc = "sort_del_store"
    /\ log' = Append(log, Cmd("DEL", call.store))
    /\ store' = DEL(store, call.store)
    /\ pc' = "sort_rpush"
    /\ UNCHANGED <<call, ret, ghost>>

\* await self.rpush(store, *data); return len(data)
sort_rpush ==
    /\ UNCHANGED topology
    /\ pc = "sort_rpush"
    /\ log' = Append(log, Cmd("RPUSH", call.store))
    /\ IF RPUSH_arity_error(call.data)
       THEN /\ pc' = "raised"
            /\ ret' = Raised("ResponseError: wrong number of arguments", pc)
            /\ UNCHANGED store
       ELSE /\ store' = RPUSH(store, call.store, call.data)
            /\ pc' = "done"
            /\ ret' = ReturnedAs("int", Len(call.data))
    /\ UNCHANGED <<call, ghost>>

\* An awaited command raises or the task is cancelled at it.
sort_fail ==
    /\ UNCHANGED topology
    /\ pc \in {"sort_type", "sort_fetch", "sort_by_key", "sort_del_store", "sort_rpush"}
    /\ pc' = "raised"
    /\ ret' = Raised("ConnectionError", pc)
    /\ UNCHANGED <<store, call, log, ghost>>

\* What the sorted key holds at the start, by its type.
SortSource(type, l, m) ==
    IF type = "none" THEN Absent
    ELSE IF type = "string" THEN StringValue(<<1>>, -1)
    ELSE IF type = "list" THEN ListValue(l)
    ELSE SetValue(m)

\* The keyspace for a call: the sorted key, the destination when there is
\* one, and the keys of the BY pattern of the call.
SortInit ==
    \E type \in {"none", "string", "list", "set"}, l \in SortLists,
       m \in SUBSET SortElements \ {{}},
       by \in ByPatterns \cup {NoArg.pat}, alpha \in BOOLEAN, desc \in BOOLEAN,
       slice \in {<<FALSE, 0, 0>>, <<TRUE, 0, 1>>, <<TRUE, 1, 2>>},
       dst \in {NoArg, DstKey}, dst_exists \in BOOLEAN,
       w \in [SortElements -> SortWeights] :
          /\ type # "list" => l = <<<<1>>>>
          /\ type # "set" => m = {<<1>>}
          /\ by = NoArg.pat => \A e \in SortElements : w[e] = <<9>>
          /\ dst = NoArg => ~dst_exists
          /\ store = [k \in SortKeys |->
                        IF k = SourceKey THEN SortSource(type, l, m)
                        ELSE IF k = DstKey
                        THEN (IF dst_exists THEN ListValue(<<<<9>>>>) ELSE Absent)
                        ELSE IF k.pat # by \/ w[k.arg] = <<>> THEN Absent
                        ELSE IF is_hash_pattern(by) THEN HashValue(w[k.arg])
                        ELSE StringValue(w[k.arg], -1)]
          /\ call = sort_new_call(by, alpha, desc, slice[1], slice[2], slice[3], dst)
          /\ pc = "sort_type"
          /\ log = <<>>
          /\ ret = NoReturn
          /\ topology = NoTopology
          /\ ghost = [store0 |-> store]

SortNext ==
    \/ sort_type
    \/ sort_fetch
    \/ sort_by_key
    \/ sort_del_store
    \/ sort_rpush
    \/ sort_fail

SpecSort == SortInit /\ [][SortNext]_vars
\* The value the sort is by: the element itself, or what the BY pattern
\* resolves to for the element in the keyspace the call started from.
SortValue(e) ==
    IF call.by = NoArg.pat THEN e ELSE ghost.store0[SortKeyOf(call.by, e)].val

\* Every element of the result has a value to sort by.
SortValuesPresent(l) ==
    call.by # NoArg.pat =>
        \A i \in DOMAIN l : Exists(ghost.store0, SortKeyOf(call.by, l[i]))

\* l is in ascending order of the sort values under a way of comparing.
Ascending(l, compare) ==
    \A i, j \in DOMAIN l :
        i < j => ~KeyLess(compare, SortValue(l[j]), SortValue(l[i]))

\* A sort that returned its data, ascending and unsliced.
SortReturnedAll ==
    /\ call.op = "sort"
    /\ pc = "done"
    /\ call.data_type \in {"set", "list"}
    /\ call.store = NoArg
    /\ ~call.desc
    /\ ~call.sliced

\* C10: when cluster sort returns its elements (ascending, no slice), they
\* are in order of their sort values, the element itself or the value the BY
\* pattern resolves to, whether a plain key or a hash field, compared as
\* numbers unless alpha is given and as strings when it is: with sort values
\* 9 and 10 and no alpha the element with 9 comes first.
C10_SortNumericUnlessAlpha ==
    (SortReturnedAll /\ SortValuesPresent(ret.val)) =>
        Ascending(ret.val, sort_compare_by_alpha(call.by, call.alpha))

\* A sort with store that returned.
SortStoreReturned == call.op = "sort" /\ pc = "done" /\ call.store # NoArg

\* The orders of the elements of the sorted key.
SourceOrders ==
    LET src == ghost.store0[SourceKey] IN
    IF src.type = "set" THEN Perms(src.val)
    ELSE IF src.type = "list"
    THEN {[i \in DOMAIN src.val |-> src.val[f[i]]] : f \in Perms(DOMAIN src.val)}
    ELSE {<<>>}

\* p is in the order the call asks for, by the comparison the sort makes.
InSortOrder(p) ==
    SortValuesPresent(p) =>
        Ascending(IF call.desc THEN Reverse(p) ELSE p, sort_compare(call.by, call.alpha))

\* The list at the destination, empty when the key does not exist.
DestinationList == IF store[call.store].type = "list" THEN store[call.store].val ELSE <<>>

\* DEL destination was issued, and no RPUSH before it.
DeletedBeforePush ==
    \E i \in DOMAIN log :
        /\ log[i] = Cmd("DEL", call.store)
        /\ \A j \in 1 .. i - 1 : log[j].cmd # "RPUSH"

\* C11: when cluster sort with store returns, the destination list holds
\* exactly the sorted and offset/count-sliced elements of the source in order,
\* what it held before having been removed by DEL before the RPUSH, and the
\* call returns the number of elements of the destination list; also for an
\* empty or missing source, where the result is 0 and the destination empty.
C11_SortStore ==
    SortStoreReturned =>
        /\ ret.pytype = "int"
        /\ ret.val = Len(DestinationList)
        /\ store[call.store].type \in {"list", "none"}
        /\ DeletedBeforePush
        /\ \E p \in SourceOrders :
              /\ InSortOrder(p)
              /\ DestinationList =
                    (IF call.sliced THEN Slice(p, call.offset, call.count) ELSE p)

----------------------------------------------------------------------------
(* ClusterStringsCommandMixin.mset, msetnx; ClusterKeysCommandMixin.delete *)

StringKeys == {"k1", "k2"}

\* What a key holds at the start: nothing, the empty string, a string.
StringContents == {"", "x"}

\* The mappings given to mset and msetnx, in the order the dict is iterated:
\* each key at most once.
StringPairLists ==
    UNION {{pairs \in [1 .. n -> StringKeys \X {"", "n"}] :
               \A i, j \in 1 .. n : i # j => pairs[i][1] # pairs[j][1]} :
           n \in 1 .. Cardinality(StringKeys)}

\* The keys given to delete: any list, a key may come twice.
StringKeyLists == UNION {[1 .. n -> StringKeys] : n \in 1 .. Cardinality(StringKeys)}

\* SET key value, for a str value
set(s, k, value) == [s EXCEPT ![k] = StringValue(value, -1)]

\* `if await self.get(k)`: the reply of GET as a condition; None and the
\* empty string are false.
get_is_truthy(s, k) == Exists(s, k) /\ s[k].val # ""

\* Integer reply of DEL key
DEL_reply(s, k) == IF Exists(s, k) THEN 1 ELSE 0

\* for k, _ in kwargs.items(): if await self.get(k): return False; then
\* return await self.mset(**kwargs)
msetnx_get ==
    /\ UNCHANGED topology
    /\ pc = "msetnx_get"
    /\ LET k == call.pairs[call.i][1] IN
       /\ log' = Append(log, Cmd("GET", k))
       /\ IF get_is_truthy(store, k)
          THEN /\ pc' = "done"
               /\ ret' = Returned(FALSE)
               /\ call' = call
          ELSE /\ ret' = ret
               /\ IF call.i < Len(call.pairs)
                  THEN pc' = "msetnx_get" /\ call' = [call EXCEPT !.i = call.i + 1]
                  ELSE pc' = "mset_set" /\ call' = [call EXCEPT !.i = 1]
    /\ UNCHANGED <<store, ghost>>

\* for pair in iteritems(kwargs): await self.set(pair[0], pair[1]); return True
mset_set ==
    /\ UNCHANGED topology
    /\ pc = "mset_set"
    /\ LET pair == call.pairs[call.i] IN
       /\ log' = Append(log, Cmd("SET", pair[1]))
       /\ store' = set(store, pair[1], pair[2])
       /\ call' = [call EXCEPT !.i = call.i + 1]
       /\ IF call.i < Len(call.pairs)
          THEN pc' = "mset_set" /\ ret' = ret
          ELSE pc' = "done" /\ ret' = Returned(TRUE)
    /\ UNCHANGED ghost

\* for arg in keys: count += await self.execute_command("DEL", arg); return count
delete_del ==
    /\ UNCHANGED topology
    /\ pc = "delete_del"
    /\ LET k == call.keys[call.i]
           count == call.count + DEL_reply(store, k)
       IN
       /\ log' = Append(log, Cmd("DEL", k))
       /\ store' = DEL(store, k)
       /\ call' = [call EXCEPT !.i = call.i + 1, !.count = count]
       /\ IF call.i < Len(call.keys)
          THEN pc' = "delete_del" /\ ret' = ret
          ELSE pc' = "done" /\ ret' = Returned(count)
    /\ UNCHANGED ghost

\* An awaited command raises or the task is cancelled at it.
strings_fail ==
    /\ UNCHANGED topology
    /\ pc \in {"msetnx_get", "mset_set", "delete_del"}
    /\ pc' = "raised"
    /\ ret' = Raised("ConnectionError", pc)
    /\ UNCHANGED <<store, call, log, ghost>>

StringsInit ==
    /\ \E f \in [StringKeys -> StringContents \cup {"none"}] :
          store = [k \in StringKeys |->
                      IF f[k] = "none" THEN Absent ELSE StringValue(f[k], -1)]
    /\ \/ \E op \in {"mset", "msetnx"}, pairs \in StringPairLists :
             /\ call = [op |-> op, pairs |-> pairs, i |-> 1]
             /\ pc = (IF op = "mset" THEN "mset_set" ELSE "msetnx_get")
       \/ \E keys \in StringKeyLists :
             /\ call = [op |-> "delete", keys |-> keys, i |-> 1, count |-> 0]
             /\ pc = "delete_del"
    /\ log = <<>>
    /\ ret = NoReturn
    /\ topology = NoTopology
    /\ ghost = [store0 |-> store]

StringsNext ==
    \/ msetnx_get
    \/ mset_set
    \/ delete_del
    \/ strings_fail

SpecStrings == StringsInit /\ [][StringsNext]_vars

\* The keys of the mapping of the call.
PairKeys == {call.pairs[i][1] : i \in DOMAIN call.pairs}

\* C19: with no other client, cluster msetnx returns False and writes no
\* key when at least one of its keys exists, whatever string it holds, the
\* empty string included, and returns True, every pair set, only when none
\* of its keys existed.
C19_MsetnxAllOrNothing ==
    (call.op = "msetnx" /\ pc = "done") =>
        IF \E k \in PairKeys : Exists(ghost.store0, k)
        THEN ret = Returned(FALSE) /\ store = ghost.store0
        ELSE /\ ret = Returned(TRUE)
             /\ \A i \in DOMAIN call.pairs :
                   store[call.pairs[i][1]] = StringValue(call.pairs[i][2], -1)

----------------------------------------------------------------------------
(* ClusterListsCommandMixin: rpoplpush and brpoplpush                      *)

PopKeys == {"a", "b"}

\* The elements of the lists, the empty string among them.
PopElements == {"", "1", "2"}

PopLists == UNION {[1 .. n -> PopElements] : n \in 0 .. MaxLen}

\* A list without elements is a key that does not exist.
ListOrAbsent(l) == IF l = <<>> THEN Absent ELSE ListValue(l)

\* RPOP and BRPOP of a list that has elements: the last one is taken off.
RPOP(s, k) ==
    LET l == LRANGE(s, k) IN [s EXCEPT ![k] = ListOrAbsent(SubSeq(l, 1, Len(l) - 1))]

\* LPUSH key element
LPUSH(s, k, element) == [s EXCEPT ![k] = ListValue(<<element>> \o LRANGE(s, k))]

\* The reply of RPOP key 1 through its callback (lambda r: r and list(r) or
\* []): the list of the one popped element, [] for a missing key.
rpop(s, k) ==
    LET l == LRANGE(s, k) IN IF l = <<>> THEN <<>> ELSE <<l[Len(l)]>>

\* The reply of BRPOP key timeout through the same callback: the key and the
\* popped element, [] when the timeout expired.
brpop(s, k) ==
    LET l == LRANGE(s, k) IN IF l = <<>> THEN <<>> ELSE <<k, l[Len(l)]>>

\* A push of the first item of the reply by both operations.
pushed_first(op, values) == values[1]

\* values[0] of rpop's reply, values[1] of brpop's.
pushed(op, values) == IF op = "rpoplpush" THEN values[1] ELSE values[2]

\* rpoplpush: values = await self.rpop(source); if values: ...; return []
\* brpoplpush: values = await self.brpop(source, timeout=timeout); if not
\* values: return None; a TimeoutError returns None as well.
poplpush_pop ==
    /\ UNCHANGED topology
    /\ pc = "poplpush_pop"
    /\ LET values == IF call.op = "rpoplpush" THEN rpop(store, call.source)
                     ELSE brpop(store, call.source)
       IN
       /\ log' = Append(log, Cmd(IF call.op = "rpoplpush" THEN "RPOP" ELSE "BRPOP",
                                 call.source))
       /\ call' = [call EXCEPT !.values = values]
       /\ IF values # <<>>
          THEN /\ store' = RPOP(store, call.source)
               /\ pc' = "poplpush_lpush"
               /\ ret' = ret
          ELSE /\ store' = store
               /\ pc' = "done"
               /\ ret' = IF call.op = "rpoplpush" THEN ReturnedAs("list", <<>>)
                         ELSE ReturnedAs("NoneType", <<>>)
    /\ UNCHANGED ghost

\* await self.lpush(destination, values[...]); return values[...]
poplpush_lpush ==
    /\ UNCHANGED topology
    /\ pc = "poplpush_lpush"
    /\ log' = Append(log, Cmd("LPUSH", call.destination))
    /\ store' = LPUSH(store, call.destination, pushed(call.op, call.values))
    /\ pc' = "done"
    /\ ret' = ReturnedAs("str", pushed(call.op, call.values))
    /\ UNCHANGED <<call, ghost>>

\* An awaited command raises something else than TimeoutError, or the task
\* is cancelled at it.
poplpush_fail ==
    /\ UNCHANGED topology
    /\ pc \in {"poplpush_pop", "poplpush_lpush"}
    /\ pc' = "raised"
    /\ ret' = Raised("ConnectionError", pc)
    /\ UNCHANGED <<store, call, log, ghost>>

PoplpushInit ==
    /\ \E f \in [PopKeys -> PopLists] : store = [k \in PopKeys |-> ListOrAbsent(f[k])]
    /\ \E op \in {"rpoplpush", "brpoplpush"}, source \in PopKeys, destination \in PopKeys :
          call = [op |-> op, source |-> source, destination |-> destination,
                  values |-> <<>>]
    /\ pc = "poplpush_pop"
    /\ log = <<>>
    /\ ret = NoReturn
    /\ topology = NoTopology
    /\ ghost = [store0 |-> store]

PoplpushNext ==
    \/ poplpush_pop
    \/ poplpush_lpush
    \/ poplpush_fail

SpecPoplpush == PoplpushInit /\ [][PoplpushNext]_vars

\* The source list when the call started, and the list without its last
\* element.
Source0 == LRANGE(ghost.store0, call.source)

Source0Front == SubSeq(Source0, 1, Len(Source0) - 1)

\* C22: cluster rpoplpush and brpoplpush on a non-empty source list remove
\* the last element of source, insert that element at the head of
\* destination, leave the other elements of both lists in their order and
\* return the moved element, the empty string too; brpoplpush on a source
\* that stays empty until the timeout returns None and changes neither list.
C22_PopPush ==
    pc = "done" =>
        IF Source0 # <<>>
        THEN LET moved == Source0[Len(Source0)] IN
             /\ ret.pytype = "str"
             /\ ret.val = moved
             /\ IF call.source = call.destination
                THEN LRANGE(store, call.source) = <<moved>> \o Source0Front
                ELSE /\ LRANGE(store, call.source) = Source0Front
                     /\ LRANGE(store, call.destination) =
                           <<moved>> \o LRANGE(ghost.store0, call.destination)
        ELSE call.op = "brpoplpush" =>
                /\ ret.pytype = "NoneType"
                /\ store = ghost.store0

\* C22 witness: brpoplpush moved an empty string from the end of a list of
\* two onto the head of another list that had elements.
C22_Witness ==
    /\ pc = "done"
    /\ call.op = "brpoplpush"
    /\ call.source # call.destination
    /\ Len(Source0) = 2
    /\ Source0[2] = ""
    /\ ret = ReturnedAs("str", "")
    /\ LRANGE(ghost.store0, call.destination) # <<>>
    /\ LRANGE(store, call.destination)[1] = ""

\* C22 witness of the timeout: brpoplpush on an empty source returned None.
C22_TimeoutReached ==
    /\ pc = "done"
    /\ call.op = "brpoplpush"
    /\ Source0 = <<>>
    /\ ret.pytype = "NoneType"

----------------------------------------------------------------------------
(* The emulated multi-step operations together: the store set operations,  *)
(* rename, pfmerge, sort with store, mset and delete, each from its first  *)
(* command to its return or to the step that failed.                       *)

EmulatedInit ==
    \/ SetsInit /\ call.op \in StoreOps
    \/ RenameInit
    \/ PfInitFor({l \in PfSourceLists : Len(l) < 2})
    \/ SortInit /\ call.store # NoArg
    \/ StringsInit /\ call.op \in {"mset", "delete"}

EmulatedNext ==
    \/ set_smembers
    \/ set_delete_destination
    \/ set_sadd
    \/ set_fail
    \/ rename_dump
    \/ rename_pttl
    \/ rename_del_dst
    \/ rename_restore
    \/ rename_del_src
    \/ rename_fail
    \/ pf_get_source
    \/ pf_get_dest
    \/ pf_set_tmp
    \/ pf_merge
    \/ pf_get_tmp
    \/ pf_set_dest
    \/ pf_del_tmp_dest
    \/ pf_del_tmp
    \/ pf_fail
    \/ sort_type
    \/ sort_fetch
    \/ sort_by_key
    \/ sort_del_store
    \/ sort_rpush
    \/ sort_fail
    \/ mset_set
    \/ delete_del
    \/ strings_fail

SpecEmulated == EmulatedInit /\ [][EmulatedNext]_vars

\* The i-th element of a sequence of commands is c.
At(path, i, c) == i \in DOMAIN path /\ path[i] = c

\* The commands of a store set operation whose steps all succeed: SMEMBERS of
\* each operand in order, DEL destination, and SADD destination when there
\* is something to add.
sets_success_path(c, i) ==
    LET n == Len(call.keys) IN
    \/ i <= n /\ c = Cmd("SMEMBERS", call.keys[i])
    \/ i = n + 1 /\ c = Cmd("DEL", call.destination)
    \/ i = n + 2 /\ store_issues_sadd(call.op, call.res)
                 /\ c = Cmd("SADD", call.destination)

\* rename: DUMP src, PTTL src, DEL dst, RESTORE dst, DEL src.
rename_success_path(c, i) ==
    At(<<Cmd("DUMP", call.src), Cmd("PTTL", call.src), Cmd("DEL", call.dst),
         Cmd("RESTORE", call.dst), Cmd("DEL", call.src)>>, i, c)

\* pfmerge: GET of each source and of destkey, SET of one temporary key per
\* object read, PFMERGE into tmp_dest, GET tmp_dest, SET destkey, DEL
\* tmp_dest, DEL of each temporary key.
pfmerge_success_path(c, i) ==
    LET n == Len(call.sourcekeys)
        t == Len(call.all_k)
    IN
    \/ i <= n /\ c = Cmd("GET", call.sourcekeys[i])
    \/ i = n + 1 /\ c = Cmd("GET", call.destkey)
    \/ i > n + 1 /\ i <= n + 1 + t /\ c = Cmd("SET", call.all_k[i - n - 1])
    \/ /\ i > n + 1 + t
       /\ t = Len(call.all_hll_objects)
       /\ At(<<Cmd("PFMERGE", call.tmp_dest), Cmd("GET", call.tmp_dest),
               Cmd("SET", call.destkey), Cmd("DEL", call.tmp_dest)>>
                \o [j \in 1 .. t |-> Cmd("DEL", call.all_k[j])],
             i - n - 1 - t, c)

\* The call is at its BY lookups, or stopped there: call.data is still the
\* data as it was fetched.
sort_at_lookups == pc = "sort_by_key" \/ (pc = "raised" /\ ret.at = "sort_by_key")

\* sort with store: TYPE key, SMEMBERS or LRANGE key, one GET or HGET per
\* element when there is a BY pattern, DEL store, RPUSH store.
sort_success_path(c, i) ==
    LET lookup == IF is_hash_pattern(call.by) THEN "HGET" ELSE "GET"
        n == IF call.by = NoArg.pat THEN 0
             ELSE IF sort_at_lookups THEN Len(call.data)
             ELSE Len(call.keys)
    IN
    \/ i = 1 /\ c = Cmd("TYPE", call.key)
    \/ /\ i = 2
       /\ call.data_type \in {"set", "list"}
       /\ c = Cmd(IF call.data_type = "set" THEN "SMEMBERS" ELSE "LRANGE", call.key)
    \/ /\ i > 2
       /\ i <= 2 + n
       /\ IF sort_at_lookups
          THEN c = Cmd(lookup, SortKeyOf(call.by, call.data[i - 2]))
          ELSE \E d \in SortElements : c = Cmd(lookup, SortKeyOf(call.by, d))
    \/ i = 3 + n /\ c = Cmd("DEL", call.store)
    \/ i = 4 + n /\ c = Cmd("RPUSH", call.store)

\* mset: SET of each pair in order.
mset_success_path(c, i) == i <= Len(call.pairs) /\ c = Cmd("SET", call.pairs[i][1])

\* delete: DEL of each key in order.
delete_success_path(c, i) == i <= Len(call.keys) /\ c = Cmd("DEL", call.keys[i])

\* c is the i-th command of the call when none of its steps fails, given the
\* replies and the random keys the call has had so far.
success_path(c, i) ==
    CASE call.op \in StoreOps -> sets_success_path(c, i)
      [] call.op = "rename" -> rename_success_path(c, i)
      [] call.op = "pfmerge" -> pfmerge_success_path(c, i)
      [] call.op = "sort" -> sort_success_path(c, i)
      [] call.op = "mset" -> mset_success_path(c, i)
      [] call.op = "delete" -> delete_success_path(c, i)

\* Every command issued so far is the one the success path has in its place.
LogIsPrefixOfSuccessPath == \A i \in DOMAIN log : success_path(log[i], i)

\* A step issues at most one command, after those already issued.
IssuesAtMostOne == log' = log \/ \E c \in {log'[Len(log')]} : log' = Append(log, c)

\* C18: in every emulated multi-step operation (store set operations,
\* rename, pfmerge, sort with store, mset, delete), whether it completes, a
\* step fails or the call is cancelled, the commands issued are a prefix of
\* the success-path command sequence of the call, so that no undo command is
\* ever issued; and the step at which the call fails changes no key: what the
\* earlier steps deleted and wrote stays.
C18_PrefixNoUndo ==
    /\ [](LogIsPrefixOfSuccessPath)
    /\ [][/\ Len(log') > 0 => IssuesAtMostOne
          /\ pc' = "raised" => store' = store]_vars

\* C18 witness: a pfmerge stopped after it wrote temporary keys, which are
\* still there.
C18_Witness ==
    /\ call.op = "pfmerge"
    /\ pc = "raised"
    /\ ret.at \in {"pf_merge", "pf_get_tmp", "pf_set_dest"}
    /\ Len(call.all_k) > 0
    /\ \A j \in DOMAIN call.all_k : Exists(store, call.all_k[j])
    /\ store # ghost.store0

----------------------------------------------------------------------------
(* pfmerge: the order of its commands and the part of the destination.     *)

\* How many commands a pfmerge that has come to its position without a
\* failure has issued: each command goes out when the replies to all the
\* commands before it are there.
pfmerge_issued ==
    LET n == Len(call.sourcekeys)
        t == Len(call.all_hll_objects)
    IN CASE pc = "pf_get_source" -> call.i - 1
         [] pc = "pf_get_dest" -> n
         [] pc = "pf_set_tmp" -> n + 1 + call.j
         [] pc = "pf_merge" -> n + 1 + t
         [] pc = "pf_get_tmp" -> n + 2 + t
         [] pc = "pf_set_dest" -> n + 3 + t
         [] pc = "pf_del_tmp_dest" -> n + 4 + t
         [] pc = "pf_del_tmp" -> n + 4 + t + call.d
         [] pc = "done" -> n + 5 + t + t

\* The positions of a command in the log.
PositionsOf(c) == {i \in DOMAIN log : log[i] = c}

\* C26: cluster pfmerge issues its commands one after another in this order:
\* GET of every source key in argument order, GET destkey, one SET per
\* fetched object to a newly generated temporary key, PFMERGE into the
\* temporary destination over exactly those temporary keys, GET of the
\* temporary destination, SET destkey with that value, DEL of the temporary
\* destination, DEL of each temporary key.  A command is issued only when
\* the one before it has replied, and destkey is written exactly once, after
\* the PFMERGE.
C26_PfmergeOrder ==
    /\ \A i \in DOMAIN log : pfmerge_success_path(log[i], i)
    /\ pc # "raised" => Len(log) = pfmerge_issued
    /\ pc \in {"pf_merge", "pf_get_tmp"} =>
          /\ Len(call.all_k) = Len(call.all_hll_objects)
          /\ Len(call.all_hll_objects) \in
                {Len(call.sourcekeys), Len(call.sourcekeys) + 1}
    /\ (pc = "pf_get_tmp" /\ NoCollision) =>
          store[call.tmp_dest].val =
              HLL(UNION {store[k].val.obs : k \in Range(call.all_k)})
    /\ pc = "pf_del_tmp_dest" =>
          store[call.destkey] = StringValue(encode(call.parsed_dest), -1)
    /\ pc = "done" =>
          /\ Cardinality(PositionsOf(Cmd("SET", call.destkey))) = 1
          /\ \A i \in PositionsOf(Cmd("SET", call.destkey)) :
             \A j \in PositionsOf(Cmd("PFMERGE", call.tmp_dest)) : j < i

\* C26 witness: a pfmerge of two sources and an existing destination has
\* returned after its thirteen commands.
C26_Witness ==
    /\ pc = "done"
    /\ Len(call.sourcekeys) = 2
    /\ Len(call.all_k) = 3
    /\ Len(log) = 13
    /\ log[7] = Cmd("PFMERGE", call.tmp_dest)
    /\ log[9] = Cmd("SET", call.destkey)

\* What the keys hold together when the call starts, as observations.
ObservedBy(keys) ==
    UNION {ghost.store0[k].val.obs : k \in {x \in keys : Exists(ghost.store0, x)}}

\* destkey held a value, other than the empty string, when the call started.
DestHeldValue ==
    /\ Exists(ghost.store0, call.destkey)
    /\ ghost.store0[call.destkey].val.text # ""

\* C27: in cluster pfmerge (the random ids not colliding), a value that
\* destkey holds when it is read is copied to a temporary key and is among
\* the operands of PFMERGE, and the value finally written to destkey is the
\* merge of all sources and the previous destination; when destkey is absent
\* or empty only the sources are merged.
C27_DestinationMerged ==
    NoCollision =>
        LET n == Len(call.sourcekeys) IN
        /\ pc = "pf_merge" =>
              IF DestHeldValue
              THEN /\ Len(call.all_k) = n + 1
                   /\ store[call.all_k[n + 1]].val = ghost.store0[call.destkey].val
              ELSE Len(call.all_k) = n
        /\ pc = "done" =>
              store[call.destkey].val =
                  HLL(ObservedBy(Range(call.sourcekeys)
                                   \cup (IF DestHeldValue THEN {call.destkey} ELSE {})))

\* C27 witness: a source that observed 1 was merged into a destination that
\* had observed 3, which now holds both.
C27_Witness ==
    /\ pc = "done"
    /\ NoCollision
    /\ call.sourcekeys = <<Key("", "src1")>>
    /\ DestHeldValue
    /\ ghost.store0[call.destkey].val = HLL({3})
    /\ store[call.destkey].val = HLL({1, 3})

----------------------------------------------------------------------------
(* The Cluster Router: one call from its routing decision to its result.   *)
(* In this part `store` is the cluster as the nodes know it (its           *)
(* configuration and how often each node received the command),            *)
(* `topology` the map the client holds, `log` the dispatches of the call.  *)

\* list_keys_to_dict(keys, flag)
list_keys_to_dict(keys, flag) == [k \in keys |-> flag]

\* ClusterServerCommandMixin.NODES_FLAGS (the commands the model routes)
ServerFlags ==
    list_keys_to_dict({"SHUTDOWN", "SLAVEOF", "CLIENT SETNAME"}, "BLOCKED")
        @@ list_keys_to_dict({"FLUSHALL", "FLUSHDB"}, "ALL_MASTERS")
        @@ list_keys_to_dict({"TIME", "DBSIZE"}, "ALL_NODES")

\* ClusterKeysCommandMixin.NODES_FLAGS
KeysFlags ==
    ("MOVE" :> "BLOCKED" @@ "RANDOMKEY" :> "RANDOM" @@ "SCAN" :> "ALL_MASTERS")
        @@ list_keys_to_dict({"KEYS"}, "ALL_NODES")

\* ClusterScriptingCommandMixin.NODES_FLAGS
ScriptingFlags ==
    ("SCRIPT KILL" :> "BLOCKED")
        @@ list_keys_to_dict({"SCRIPT LOAD", "SCRIPT FLUSH", "SCRIPT EXISTS"}, "ALL_MASTERS")

\* BITOP loses its flag: it would be routed by the slot of its keys.
StringsFlags_unflagged == <<>>

\* ClusterStringsCommandMixin.NODES_FLAGS
StringsFlags == "BITOP" :> "BLOCKED"

\* The flags of the client: the mixins' tables merged.
NODES_FLAGS == ServerFlags @@ KeysFlags @@ ScriptingFlags @@ StringsFlags

\* The routing policy of a command: its flag, and the slot of its keys for a
\* command without one.
routing(command) ==
    IF command \in DOMAIN NODES_FLAGS THEN NODES_FLAGS[command] ELSE "SLOT_ID"

RouterNodes == {"m1", "m2", "m3", "r1"}

RouterKeys == {Key("", "a"), Key("t", "a"), Key("t", "b")}

\* A complete map: the masters, the replicas and the owner of every slot.
TopologyMap(masters, replicas, owner_a, owner_t) ==
    [masters |-> masters, replicas |-> replicas,
     owner |-> [slot \in {KeySlot(k) : k \in RouterKeys} |->
                   IF slot = KeySlot(Key("", "a")) THEN owner_a ELSE owner_t]]

\* The configurations the cluster goes through: a slot migrates, a master
\* leaves and another joins.
ClusterConfigs ==
    {TopologyMap({"m1", "m2"}, {"r1"}, "m1", "m2"),
     TopologyMap({"m1", "m2"}, {"r1"}, "m2", "m2"),
     TopologyMap({"m2", "m3"}, {}, "m2", "m3")}

allMasters(map) == map.masters

allNodes(map) == map.masters \cup map.replicas

\* Longest list of key arguments.
MaxKeys == 2

RouterKeyLists == UNION {[1 .. n -> RouterKeys] : n \in 0 .. MaxKeys}

\* The commands routed in the model: two routed by slot, the flagged ones.
RouterCommands ==
    {"GET", "PFMERGE", "SHUTDOWN", "SLAVEOF", "CLIENT SETNAME", "MOVE", "BITOP",
     "SCRIPT KILL", "KEYS", "FLUSHDB", "RANDOMKEY"}

Dispatch(command, node) == [cmd |-> command, node |-> node]

\* A call uses the first key only to find its node.
key_slots_first_only(keys) == {KeySlot(keys[1])}

\* The slots of the key arguments of a call.
key_slots(keys) == {KeySlot(keys[i]) : i \in DOMAIN keys}

\* Two retries of a redirected dispatch.
retry_allowed_twice(attempts) == attempts < 3

\* A redirected dispatch is retried when it was the first dispatch of the call.
retry_allowed(attempts) == attempts < 2

\* applyRedirect(slot, newOwner)
applyRedirect(map, slot, newOwner) == [map EXCEPT !.owner[slot] = newOwner]

\* A call that reads the current map at every lookup.
lookup_map_current(snapshot, current) == current

\* The map a lookup of a call reads: the one the call took when it started.
lookup_map(snapshot, current) == snapshot

\* A failed dispatch cancels the dispatches not yet completed.
on_failure_cancel(status) ==
    [n \in DOMAIN status |->
        IF status[n] \in {"pending", "inflight"} THEN "cancelled" ELSE status[n]]

\* What the failure of one dispatch of a fan-out does to the others: nothing.
on_failure(status) == status

router_new_call(command, keys) ==
    [op |-> "route", command |-> command, keys |-> keys, policy |-> "",
     snapshot |-> NoTopology, slot |-> <<>>, target |-> "", attempts |-> 0,
     targets |-> {}, status |-> <<>>, lookups |-> <<>>]

in_flight == pc \in {"route", "dispatch", "fanout"}

\* Steps 1 and 2 of route: the policy of the command decides the target.
\* A blocked command and keys of different slots fail before any dispatch.
router_route ==
    /\ pc = "route"
    /\ LET policy == routing(call.command)
           slots == key_slots(call.keys)
           c == [call EXCEPT !.policy = policy, !.snapshot = topology]
       IN
       CASE policy = "BLOCKED" ->
              /\ call' = c
              /\ pc' = "raised"
              /\ ret' = Raised("UnsupportedInCluster", pc)
         [] policy = "SLOT_ID" /\ Cardinality(slots) # 1 ->
              /\ call' = c
              /\ pc' = "raised"
              /\ ret' = Raised("CrossSlotError", pc)
         [] policy = "SLOT_ID" /\ Cardinality(slots) = 1 ->
              LET slot == CHOOSE sl \in slots : TRUE IN
              /\ call' = [c EXCEPT !.slot = slot, !.target = topology.owner[slot],
                                   !.lookups = <<[slot |-> slot,
                                                  owner |-> topology.owner[slot]]>>]
              /\ pc' = "dispatch"
              /\ ret' = ret
         [] policy = "RANDOM" ->
              \E n \in allNodes(topology) :
                  /\ call' = [c EXCEPT !.target = n,
                                       !.lookups = <<[nodes |-> allNodes(topology)]>>]
                  /\ pc' = "dispatch"
                  /\ ret' = ret
         [] policy \in {"ALL_NODES", "ALL_MASTERS"} ->
              LET targets == IF policy = "ALL_NODES" THEN allNodes(topology)
                             ELSE allMasters(topology)
              IN
              /\ call' = [c EXCEPT !.targets = targets,
                                   !.status = [n \in targets |-> "pending"],
                                   !.lookups = <<[nodes |-> targets]>>]
              /\ pc' = "fanout"
              /\ ret' = ret
    /\ UNCHANGED <<store, log, ghost, topology>>

\* A node of the configuration takes the command.
node_receives(s, n) ==
    IF n \in allNodes(s.config)
    THEN [s EXCEPT !.received[n] = s.received[n] + 1]
    ELSE s

\* Step 3 for a single target: the node answers, or is not there, or names
\* the owner of the slot; a redirection is applied to the map and the
\* dispatch tried again if it was the first.
router_dispatch ==
    /\ pc = "dispatch"
    /\ log' = Append(log, Dispatch(call.command, call.target))
    /\ store' = node_receives(store, call.target)
    /\ LET attempts == call.attempts + 1 IN
       IF call.target \notin allNodes(store.config)
       THEN /\ call' = [call EXCEPT !.attempts = attempts]
            /\ pc' = "raised"
            /\ ret' = Raised("NodeUnavailable", pc)
            /\ UNCHANGED <<topology, ghost>>
       ELSE IF call.policy = "SLOT_ID" /\ store.config.owner[call.slot] # call.target
       THEN LET newNode == store.config.owner[call.slot] IN
            /\ topology' = applyRedirect(topology, call.slot, newNode)
            /\ ghost' = [ghost EXCEPT !.maps = @ \cup {topology'}]
            /\ IF retry_allowed(attempts)
               THEN /\ call' = [call EXCEPT !.attempts = attempts, !.target = newNode]
                    /\ pc' = "dispatch"
                    /\ ret' = ret
               ELSE /\ call' = [call EXCEPT !.attempts = attempts]
                    /\ pc' = "raised"
                    /\ ret' = Raised("Redirected", pc)
       ELSE /\ call' = [call EXCEPT !.attempts = attempts]
            /\ pc' = "done"
            /\ ret' = Returned([node |-> call.target, reply |-> "OK"])
            /\ UNCHANGED <<topology, ghost>>

\* The dispatch times out or the connection fails: the command does not
\* reach the node and the error is surfaced.
router_timeout ==
    /\ pc = "dispatch"
    /\ log' = Append(log, Dispatch(call.command, call.target))
    /\ call' = [call EXCEPT !.attempts = call.attempts + 1]
    /\ pc' = "raised"
    /\ ret' = Raised("NodeUnavailable", pc)
    /\ UNCHANGED <<store, ghost, topology>>

\* One dispatch of a fan-out leaves: the node is looked up in the map of the
\* call; a node that map does not hold is not addressed.
fanout_send(n) ==
    /\ pc = "fanout"
    /\ n \in call.targets
    /\ call.status[n] = "pending"
    /\ LET map == lookup_map(call.snapshot, topology)
           known == n \in allNodes(map)
           lookups == Append(call.lookups, [node |-> n, known |-> known])
       IN
       IF known
       THEN /\ log' = Append(log, Dispatch(call.command, n))
            /\ store' = node_receives(store, n)
            /\ call' = [call EXCEPT !.status[n] = "inflight", !.lookups = lookups]
       ELSE /\ call' = [call EXCEPT !.status = on_failure([call.status EXCEPT ![n] = "failed"]),
                                    !.lookups = lookups]
            /\ UNCHANGED <<log, store>>
    /\ UNCHANGED <<pc, ret, ghost, topology>>

\* One dispatch of a fan-out completes: with the reply of the node, or with
\* an error (the node is gone, the connection failed, the timeout ran out).
fanout_complete(n) ==
    /\ pc = "fanout"
    /\ n \in call.targets
    /\ call.status[n] = "inflight"
    /\ \E ok \in BOOLEAN :
          IF ok /\ n \in allNodes(store.config)
          THEN call' = [call EXCEPT !.status[n] = "replied"]
          ELSE call' = [call EXCEPT !.status = on_failure([call.status EXCEPT ![n] = "failed"])]
    /\ UNCHANGED <<store, pc, log, ret, ghost, topology>>

\* Step 4 of a fan-out, once no dispatch is left to wait for: the replies
\* and errors keyed by node go to the merge function.
router_merge ==
    /\ pc = "fanout"
    /\ \A n \in call.targets : call.status[n] \in {"replied", "failed", "cancelled"}
    /\ pc' = "done"
    /\ ret' = Returned([n \in call.targets |-> call.status[n]])
    /\ UNCHANGED <<store, call, log, ghost, topology>>

\* The cluster changes its configuration while the call is in flight.
cluster_reconfigure ==
    /\ in_flight
    /\ \E config \in ClusterConfigs \ {store.config} :
          store' = [store EXCEPT !.config = config]
    /\ UNCHANGED <<call, pc, log, ret, ghost, topology>>

\* refresh(): the map is replaced by the one the cluster reports.
topology_refresh ==
    /\ in_flight
    /\ topology # store.config
    /\ topology' = store.config
    /\ ghost' = [ghost EXCEPT !.maps = @ \cup {topology'}]
    /\ UNCHANGED <<store, call, pc, log, ret>>

RouterInit ==
    /\ \E config \in ClusterConfigs :
          store = [config |-> config, received |-> [n \in RouterNodes |-> 0]]
    /\ topology \in ClusterConfigs
    /\ \E command \in RouterCommands, keys \in RouterKeyLists :
          /\ routing(command) = "SLOT_ID" => keys # <<>>
          /\ routing(command) \notin {"SLOT_ID", "BLOCKED"} => keys = <<>>
          /\ call = router_new_call(command, keys)
    /\ pc = "route"
    /\ log = <<>>
    /\ ret = NoReturn
    /\ ghost = [store0 |-> store, maps |-> {topology}]

RouterStep ==
    \/ router_route
    \/ router_dispatch
    \/ router_timeout
    \/ \E n \in RouterNodes : fanout_send(n)
    \/ \E n \in RouterNodes : fanout_complete(n)
    \/ router_merge

RouterNext ==
    \/ RouterStep
    \/ cluster_reconfigure
    \/ topology_refresh

SpecRouter == RouterInit /\ [][RouterNext]_vars

\* Every dispatch completes or times out, and the client runs on.
SpecRouterFair == SpecRouter /\ WF_vars(RouterStep)

\* No node has received anything since the call started.
NothingDispatched ==
    /\ log = <<>>
    /\ call.attempts = 0
    /\ store.received = ghost.store0.received

\* A call of a command routed by slot whose keys are of two slots or more.
CrossSlotCall ==
    /\ call.op = "route"
    /\ routing(call.command) = "SLOT_ID"
    /\ \E i, j \in DOMAIN call.keys : KeySlot(call.keys[i]) # KeySlot(call.keys[j])

\* C12: a call of a command routed by key slot whose key arguments are of at
\* least two slots fails with CrossSlotError, once and for all, and no node
\* is sent the command: nothing is read or written, nothing is retried.
C12_CrossSlot ==
    (CrossSlotCall /\ pc # "route") =>
        /\ pc = "raised"
        /\ ret.err = "CrossSlotError"
        /\ NothingDispatched

\* C12 witness: a two-key call over two slots has failed.
C12_Witness ==
    /\ CrossSlotCall
    /\ Len(call.keys) = 2
    /\ pc = "raised"
    /\ ret.err = "CrossSlotError"

\* The commands the claim names as blocked.
BlockedCommands == {"SHUTDOWN", "SLAVEOF", "CLIENT SETNAME", "MOVE", "BITOP", "SCRIPT KILL"}

\* C13: a command flagged BLOCKED (SHUTDOWN, SLAVEOF, CLIENT SETNAME, MOVE,
\* BITOP, SCRIPT KILL) called through the cluster client fails at once with
\* UnsupportedInCluster and is sent to no node: no broadcast, no retry.
C13_Blocked ==
    (call.op = "route" /\ call.command \in BlockedCommands /\ pc # "route") =>
        /\ pc = "raised"
        /\ ret.err = "UnsupportedInCluster"
        /\ NothingDispatched

\* C13 witness: BITOP over keys of one slot was refused.
C13_Witness ==
    /\ call.op = "route"
    /\ call.command = "BITOP"
    /\ Len(call.keys) = 2
    /\ KeySlot(call.keys[1]) = KeySlot(call.keys[2])
    /\ pc = "raised"
    /\ ret.err = "UnsupportedInCluster"

\* A call with one target node.
SingleTarget == call.op = "route" /\ routing(call.command) \in {"SLOT_ID", "RANDOM"}

\* C14: whatever redirections the nodes answer with, a Router call to one
\* node dispatches its command at most twice, the second time only to the
\* node the first redirection named, and every Router call terminates.
C14_RetryOnce ==
    /\ [](SingleTarget =>
            /\ Len(log) <= 2
            /\ call.attempts = Len(log)
            /\ Len(log) = 2 => log[1].node # log[2].node)
    /\ <>(pc \in {"done", "raised"})

\* C14 witness: the retry was redirected as well and the error surfaced.
C14_Witness ==
    /\ SingleTarget
    /\ pc = "raised"
    /\ ret.err = "Redirected"
    /\ Len(log) = 2

\* A fan-out that has merged.
FanoutMerged ==
    call.op = "route" /\ routing(call.command) \in {"ALL_NODES", "ALL_MASTERS"} /\ pc = "done"

\* C15: when a fan-out merges, every node of the target set has been sent
\* the command exactly once and has answered or failed, no node outside the
\* set was sent it, and the merge has the reply or the error of every node;
\* the failure of one node has cancelled no other dispatch.
C15_FanoutAll ==
    FanoutMerged =>
        /\ \A n \in call.targets :
              /\ Cardinality({i \in DOMAIN log : log[i] = Dispatch(call.command, n)}) = 1
              /\ store.received[n] <= ghost.store0.received[n] + 1
              /\ call.status[n] \in {"replied", "failed"}
              /\ ret.val[n] = call.status[n]
        /\ Len(log) = Cardinality(call.targets)
        /\ DOMAIN ret.val = call.targets

\* C15 witness: a fan-out to three nodes merged with the first node
\* dispatched to having failed and another having replied.
C15_Witness ==
    /\ FanoutMerged
    /\ Cardinality(call.targets) = 3
    /\ call.status[log[1].node] = "failed"
    /\ \E n \in call.targets : call.status[n] = "replied"

\* A lookup of the call answers as the map m does.
LookupAgrees(i, m) ==
    LET l == call.lookups[i] IN
    IF call.policy = "SLOT_ID" THEN l.owner = m.owner[l.slot]
    ELSE IF i = 1
    THEN l.nodes = (IF call.policy = "ALL_MASTERS" THEN allMasters(m) ELSE allNodes(m))
    ELSE l.known = (l.node \in allNodes(m))

\* C16: with refreshes of the Topology Map running beside the call, all the
\* lookups of one Router call (slot owner, node set, nodes) are answered by
\* one complete map the client has held, never by a mix of two.
C16_OneSnapshot ==
    (call.op = "route" /\ call.lookups # <<>>) =>
        \E m \in ghost.maps : \A i \in DOMAIN call.lookups : LookupAgrees(i, m)

\* C16 witness: a fan-out looked a node up after the map had been replaced
\* by one that does not hold that node.
C16_Witness ==
    /\ call.op = "route"
    /\ Len(call.lookups) >= 2
    /\ topology # call.snapshot
    /\ \E i \in 2 .. Len(call.lookups) : call.lookups[i].node \notin allNodes(topology)

----------------------------------------------------------------------------
(* Broadcast commands and their merge functions: KEYS, SCRIPT EXISTS and   *)
(* SCRIPT FLUSH.  Here `store` is what each node holds: its keys, its      *)
(* script cache and whether it can flush it.                               *)

\* Key names as sequences of characters.
BroadcastKeys == {<<"a", "1">>, <<"a", "2">>, <<"b">>}

\* Patterns: "*", "a*" and the name "b".
BroadcastPatterns == {<<"*">>, <<"a", "*">>, <<"b">>}

Shas == {"sha1", "sha2"}

ShaLists == UNION {[1 .. n -> Shas] : n \in 1 .. 2}

\* The map of the broadcasts: two masters, one of them with a replica.
BroadcastMap == TopologyMap({"m1", "m2"}, {"r1"}, "m1", "m2")

\* KEYS pattern on a node: a pattern ending in * matches the names that
\* start with what is before it, another pattern the name equal to it.
matches(pattern, name) ==
    LET n == Len(pattern) IN
    IF pattern[n] = "*"
    THEN Len(name) >= n - 1 /\ SubSeq(name, 1, n - 1) = SubSeq(pattern, 1, n - 1)
    ELSE name = pattern

\* The replies a node can give: for KEYS the matching keys it holds, in any
\* order; for SCRIPT EXISTS one boolean per sha (lambda r: list(map(bool,
\* r))); for SCRIPT FLUSH whether it replied OK (bool_ok).
node_replies(s, n, command, args) ==
    IF command = "KEYS" THEN Perms({k \in s.keys[n] : matches(args, k)})
    ELSE IF command = "SCRIPT EXISTS"
    THEN {[i \in DOMAIN args |-> args[i] \in s.scripts[n]]}
    ELSE {s.flush_ok[n]}

\* A merge that appends the replies of the nodes one after another.
RECURSIVE merge_result_concatenated(_)
merge_result_concatenated(res) ==
    IF DOMAIN res = {} THEN {<<>>}
    ELSE LET n == CHOOSE x \in DOMAIN res : TRUE
             rest == [m \in DOMAIN res \ {n} |-> res[m]]
         IN {res[n] \o l : l \in merge_result_concatenated(rest)}

\* merge_result: the set-union of the replies, as a list in some order.
merge_result(res) == Perms(UNION {Range(res[n]) : n \in DOMAIN res})

\* A merge by OR: a script counts as present when one master has it.
script_exists_any(res, args) ==
    {[i \in DOMAIN args |-> \E n \in DOMAIN res : res[n][i]]}

\* "SCRIPT EXISTS": lambda res: [all(k) for k in zip(*res.values())]
script_exists_all(res, args) ==
    {[i \in DOMAIN args |-> \A n \in DOMAIN res : res[n][i]]}

\* "SCRIPT FLUSH": lambda res: all(res.values())
script_flush_all(res) == {\A n \in DOMAIN res : res[n]}

\* RESULT_CALLBACKS: the results the merge function of the command can give.
RESULT_CALLBACKS(command, res, args) ==
    IF command = "KEYS" THEN merge_result(res)
    ELSE IF command = "SCRIPT EXISTS" THEN script_exists_all(res, args)
    ELSE script_flush_all(res)

\* The nodes a broadcast goes to, by the flag of the command.
broadcast_targets(command) ==
    IF routing(command) = "ALL_NODES" THEN allNodes(topology) ELSE allMasters(topology)

\* One node of the fan-out receives the command and replies.
broadcast_reply(n) ==
    /\ pc = "broadcast"
    /\ n \in broadcast_targets(call.command)
    /\ n \notin DOMAIN call.res
    /\ \E reply \in node_replies(store, n, call.command, call.args) :
          call' = [call EXCEPT !.res = (n :> reply) @@ call.res]
    /\ log' = Append(log, Dispatch(call.command, n))
    /\ UNCHANGED <<store, pc, ret, ghost, topology>>

\* Every node has replied: the replies keyed by node go through the merge
\* function of the command.
broadcast_merge ==
    /\ pc = "broadcast"
    /\ DOMAIN call.res = broadcast_targets(call.command)
    /\ \E result \in RESULT_CALLBACKS(call.command, call.res, call.args) :
          ret' = ReturnedAs(IF call.command = "SCRIPT FLUSH" THEN "bool" ELSE "list",
                            result)
    /\ pc' = "done"
    /\ UNCHANGED <<store, call, log, ghost, topology>>

\* A dispatch of the fan-out fails: the call ends with the error.
broadcast_fail ==
    /\ pc = "broadcast"
    /\ DOMAIN call.res # broadcast_targets(call.command)
    /\ pc' = "raised"
    /\ ret' = Raised("NodeUnavailable", pc)
    /\ UNCHANGED <<store, call, log, ghost, topology>>

\* Every key is on one master or on none; the replica of m1 holds any of the
\* keys (it may be behind m1).  The script caches are per master.
BroadcastInit ==
    /\ topology = BroadcastMap
    /\ \/ \E owner \in [BroadcastKeys -> {"m1", "m2", ""}],
             copy \in SUBSET BroadcastKeys, pattern \in BroadcastPatterns :
             /\ store = [keys |-> [n \in allNodes(topology) |->
                                     IF n = "r1" THEN copy
                                     ELSE {k \in BroadcastKeys : owner[k] = n}],
                         scripts |-> [n \in allMasters(topology) |-> {}],
                         flush_ok |-> [n \in allMasters(topology) |-> TRUE]]
             /\ call = [op |-> "broadcast", command |-> "KEYS", args |-> pattern,
                        res |-> <<>>]
       \/ \E scripts \in [allMasters(topology) -> SUBSET Shas],
             flush_ok \in [allMasters(topology) -> BOOLEAN],
             command \in {"SCRIPT EXISTS", "SCRIPT FLUSH"}, sha1s \in ShaLists :
             /\ command = "SCRIPT FLUSH" => sha1s = <<"sha1">>
             /\ command = "SCRIPT EXISTS" => \A n \in allMasters(topology) : flush_ok[n]
             /\ store = [keys |-> [n \in allNodes(topology) |-> {}],
                         scripts |-> scripts, flush_ok |-> flush_ok]
             /\ call = [op |-> "broadcast", command |-> command, args |-> sha1s,
                        res |-> <<>>]
    /\ pc = "broadcast"
    /\ log = <<>>
    /\ ret = NoReturn
    /\ ghost = [store0 |-> store]

BroadcastNext ==
    \/ \E n \in RouterNodes : broadcast_reply(n)
    \/ broadcast_merge
    \/ broadcast_fail

SpecBroadcast == BroadcastInit /\ [][BroadcastNext]_vars

\* The nodes that were sent the command.
DispatchedTo == {log[i].node : i \in DOMAIN log}

\* The keys that some node holds and the pattern matches.
MatchingKeys ==
    {k \in UNION {store.keys[n] : n \in allNodes(topology)} : matches(call.args, k)}

\* C23: KEYS pattern in cluster mode is dispatched to all nodes and returns
\* the set-union of the nodes' matches: every key that some node holds and
\* the pattern matches is in the result exactly once, also a key that a
\* master and its replica both report, and no other key is in it.
C23_KeysUnion ==
    (call.command = "KEYS" /\ pc = "done") =>
        /\ DispatchedTo = allNodes(topology)
        /\ Len(log) = Cardinality(allNodes(topology))
        /\ ret.pytype = "list"
        /\ Range(ret.val) = MatchingKeys
        /\ Len(ret.val) = Cardinality(MatchingKeys)

\* C23 witness: a key that m1 and its replica both reported and a key of m2
\* are the result of KEYS a*.
C23_Witness ==
    /\ call.command = "KEYS"
    /\ pc = "done"
    /\ call.args = <<"a", "*">>
    /\ <<"a", "1">> \in store.keys["m1"] \cap store.keys["r1"]
    /\ <<"a", "2">> \in store.keys["m2"]
    /\ <<"b">> \in store.keys["m2"]
    /\ Len(ret.val) = 2

\* C24: in cluster mode SCRIPT EXISTS and SCRIPT FLUSH are dispatched to all
\* masters and merged by logical AND: script_exists returns, for each sha in
\* request order, True exactly when every master has that script, and
\* script_flush returns True exactly when every master reported success.
C24_ScriptAnd ==
    (call.command \in {"SCRIPT EXISTS", "SCRIPT FLUSH"} /\ pc = "done") =>
        /\ DispatchedTo = allMasters(topology)
        /\ Len(log) = Cardinality(allMasters(topology))
        /\ IF call.command = "SCRIPT EXISTS"
           THEN /\ ret.pytype = "list"
                /\ Len(ret.val) = Len(call.args)
                /\ \A i \in DOMAIN call.args :
                      ret.val[i] <=> \A n \in allMasters(topology) :
                                        call.args[i] \in store.scripts[n]
           ELSE /\ ret.pytype = "bool"
                /\ ret.val <=> \A n \in allMasters(topology) : store.flush_ok[n]

\* C24 witness: of two scripts asked for, the one that every master has is
\* reported present and the one that a single master has is not.
C24_Witness ==
    /\ call.command = "SCRIPT EXISTS"
    /\ pc = "done"
    /\ call.args = <<"sha2", "sha1">>
    /\ store.scripts["m1"] = {"sha1", "sha2"}
    /\ store.scripts["m2"] = {"sha2"}
    /\ ret.val = <<TRUE, FALSE>>

----------------------------------------------------------------------------
(* BitFieldOperation: the command stack of bitfield and bitfield_ro.  Here *)
(* `store` is the object: its _command_stack and its readonly flag.        *)

BitKey == "bits"

BitTypes == {"u8", "i5"}

BitOffsets == {"0", "#1"}

BitValues == {"1", "-1"}

OverflowTypes == {"WRAP", "SAT", "FAIL"}

\* Most method calls on one object.
MaxCalls == 3

\* __init__: self._command_stack = ["BITFIELD" if not readonly else
\* "BITFIELD_RO", key]
BitFieldOperation(key, readonly) ==
    [command_stack |-> <<IF ~readonly THEN "BITFIELD" ELSE "BITFIELD_RO", key>>,
     readonly |-> readonly]

\* A write method without its test of the flag.
raises_ReadOnlyError_never(self) == FALSE

\* if self.readonly: raise ReadOnlyError()
raises_ReadOnlyError(self) == self.readonly

\* A method that extends the stack or raises ReadOnlyError first; the caller
\* keeps the object either way.
bitfield_method(name, words, guarded) ==
    /\ UNCHANGED topology
    /\ pc = "bitfield"
    /\ call.n < MaxCalls
    /\ call' = [op |-> name, words |-> words, n |-> call.n + 1]
    /\ ghost' = [ghost EXCEPT !.before = store.command_stack]
    /\ IF guarded /\ raises_ReadOnlyError(store)
       THEN /\ ret' = Raised("ReadOnlyError", name)
            /\ store' = store
       ELSE /\ ret' = Returned("self")
            /\ store' = [store EXCEPT !.command_stack = @ \o words]
    /\ UNCHANGED <<pc, log>>

\* set(type, offset, value)
bitfield_set ==
    \E type \in BitTypes, offset \in BitOffsets, value \in BitValues :
        bitfield_method("set", <<"SET", type, offset, value>>, TRUE)

\* get(type, offset): no test of the flag
bitfield_get ==
    \E type \in BitTypes, offset \in BitOffsets :
        bitfield_method("get", <<"GET", type, offset>>, FALSE)

\* incrby(type, offset, increment)
bitfield_incrby ==
    \E type \in BitTypes, offset \in BitOffsets, increment \in BitValues :
        bitfield_method("incrby", <<"INCRBY", type, offset, increment>>, TRUE)

\* overflow(type)
bitfield_overflow ==
    \E type \in OverflowTypes : bitfield_method("overflow", <<"OVERFLOW", type>>, TRUE)

\* exc(): the stack is sent as one command and stays as it is.
bitfield_exc ==
    /\ UNCHANGED topology
    /\ pc = "bitfield"
    /\ call.n < MaxCalls
    /\ call' = [op |-> "exc", words |-> <<>>, n |-> call.n + 1]
    /\ ghost' = [ghost EXCEPT !.before = store.command_stack]
    /\ log' = Append(log, Cmd(store.command_stack[1], store.command_stack[2]))
    /\ ret' = Returned("reply")
    /\ UNCHANGED <<store, pc>>

\* bitfield(key) and bitfield_ro(key)
BitfieldInit ==
    /\ \E readonly \in BOOLEAN : store = BitFieldOperation(BitKey, readonly)
    /\ call = [op |-> "new", words |-> <<>>, n |-> 0]
    /\ pc = "bitfield"
    /\ log = <<>>
    /\ ret = NoReturn
    /\ topology = NoTopology
    /\ ghost = [store0 |-> store, before |-> store.command_stack]

BitfieldNext ==
    \/ bitfield_set
    \/ bitfield_get
    \/ bitfield_incrby
    \/ bitfield_overflow
    \/ bitfield_exc

SpecBitfield == BitfieldInit /\ [][BitfieldNext]_vars

\* The stack after its first two words is GET sub-commands of three words.
OnlyGets(stack) ==
    /\ (Len(stack) - 2) % 3 = 0
    /\ \A i \in 3 .. Len(stack) :
          IF i % 3 = 0 THEN stack[i] = "GET"
          ELSE IF i % 3 = 1 THEN stack[i] \in BitTypes
          ELSE stack[i] \in BitOffsets

\* C25: for a BitFieldOperation created read-only (bitfield_ro), after any
\* sequence of set, get, incrby and overflow calls the command stack starts
\* with BITFIELD_RO and the key and holds only GET sub-commands: each of set,
\* incrby and overflow raises ReadOnlyError and leaves the stack unchanged,
\* and get appends exactly one GET sub-command.
C25_ReadOnlyStack ==
    store.readonly =>
        /\ Len(store.command_stack) >= 2
        /\ store.command_stack[1] = "BITFIELD_RO"
        /\ store.command_stack[2] = BitKey
        /\ OnlyGets(store.command_stack)
        /\ call.op \in {"set", "incrby", "overflow"} =>
              /\ ret.kind = "error"
              /\ ret.err = "ReadOnlyError"
              /\ store.command_stack = ghost.before
        /\ call.op = "get" =>
              /\ ret.kind = "value"
              /\ store.command_stack = ghost.before \o call.words
              /\ call.words[1] = "GET"
              /\ Len(call.words) = 3

\* C25 witness: after a get, a refused set and another get the read-only
\* stack holds the two GET sub-commands.
C25_Witness ==
    /\ call.op = "get"
    /\ call.n = 3
    /\ store.readonly
    /\ Len(store.command_stack) = 8
    /\ Len(ghost.before) = 5

----------------------------------------------------------------------------
(* The redis_command decorator: how a call of a decorated command method   *)
(* reaches the method.  A call is the method's name, its positional        *)
(* arguments `a` (self first) and its keyword arguments `k`, a sequence of *)
(* <<name, value>> pairs in the order the caller wrote them.               *)

DecoratedMethods == {"set", "decrby"}

ArgumentValues == {"k", "10"}

KeywordNames == {"value", "ex", "decrement"}

\* Most positional arguments after self, and most keyword arguments.
MaxPositional == 2

MaxKeywords == 2

PositionalLists == UNION {[1 .. n -> ArgumentValues] : n \in 0 .. MaxPositional}

KeywordLists ==
    {k \in UNION {[1 .. n -> KeywordNames \X {"10"}] : n \in 0 .. MaxKeywords} :
        \A i, j \in DOMAIN k : k[i][1] = k[j][1] => i = j}

\* The parameters of the two methods: those a positional argument can fill,
\* in order, and those after the bare `*`.  The former have no default, the
\* latter default to None.
Signature(func) ==
    IF func = "set"
    THEN [positional |-> <<"self", "key", "value">>,
          kwonly |-> {"ex", "px", "exat", "pxat", "keepttl", "condition", "get"},
          command |-> "SET"]
    ELSE [positional |-> <<"self", "key", "decrement">>,
          kwonly |-> {},
          command |-> "DECRBY"]

KeywordNamesOf(k) == {k[i][1] : i \in DOMAIN k}

KeywordValue(k, name) == k[CHOOSE i \in DOMAIN k : k[i][1] = name][2]

\* Python's binding of a call's arguments to the parameters: TypeError for
\* too many positional arguments, an unknown keyword, a parameter given
\* twice or a parameter left without a value; otherwise every parameter
\* with the value it is bound to.
python_call(func, a, k) ==
    LET sig == Signature(func)
        params == Range(sig.positional) \cup sig.kwonly
        by_position == {sig.positional[j] : j \in 1 .. Len(sig.positional)} \cap
                       {sig.positional[j] : j \in 1 .. Len(a)}
    IN  IF \/ Len(a) > Len(sig.positional)
           \/ \E n \in KeywordNamesOf(k) : n \notin params
           \/ \E n \in KeywordNamesOf(k) : n \in by_position
           \/ \E n \in Range(sig.positional) :
                 n \notin by_position /\ n \notin KeywordNamesOf(k)
        THEN Raised("TypeError", func)
        ELSE Returned([n \in params |->
                 IF n \in by_position
                 THEN a[CHOOSE j \in 1 .. Len(a) : sig.positional[j] = n]
                 ELSE IF n \in KeywordNamesOf(k) THEN KeywordValue(k, n)
                 ELSE "None"])

\* __inner(*a, **k): return await func(*a, *k).  Unpacking the dictionary
\* with one star yields its keys.
redis_command_inner(func, a, k) ==
    python_call(func, a \o [i \in DOMAIN k |-> k[i][1]], <<>>)

\* A call of the decorated method; the body, when the call reaches it, sends
\* the method's command for the key it was given.
decorated_call ==
    /\ UNCHANGED topology
    /\ pc = "call"
    /\ ret' = redis_command_inner(call.func, call.a, call.k)
    /\ ghost' = [undecorated |-> python_call(call.func, call.a, call.k)]
    /\ log' = IF ret'.kind = "value"
              THEN <<Cmd(Signature(call.func).command, ret'.val["key"])>>
              ELSE log
    /\ pc' = "done"
    /\ UNCHANGED <<store, call>>

DecoratorInit ==
    /\ \E func \in DecoratedMethods, a \in PositionalLists, k \in KeywordLists :
          call = [func |-> func, a |-> <<"self">> \o a, k |-> k]
    /\ pc = "call"
    /\ store = <<>>
    /\ log = <<>>
    /\ ret = NoReturn
    /\ ghost = [undecorated |-> NoReturn]
    /\ topology = NoTopology

DecoratorNext == decorated_call

SpecDecorator == DecoratorInit /\ [][DecoratorNext]_vars

SameOutcome(x, y) ==
    /\ x.kind = y.kind
    /\ x.kind = "error" => x.err = y.err
    /\ x.kind = "value" => x.val = y.val

\* C30: a command method wrapped by redis_command behaves like the
\* undecorated method for every call: the method receives the caller's
\* positional arguments as positional arguments and the caller's keyword
\* arguments as keyword arguments with the same names and values.
C30_DecoratedLikeUndecorated ==
    pc = "done" => SameOutcome(ret, ghost.undecorated)

\* What the decorator keeps: a call without keyword arguments.
KeywordFreeCallsAgree ==
    (pc = "done" /\ call.k = <<>>) => SameOutcome(ret, ghost.undecorated)

\* set(key, value, ex=10): the undecorated method binds ex to 10, the
\* decorated call ends in TypeError.
SetWithExRaises ==
    /\ pc = "done"
    /\ call.func = "set"
    /\ call.a = <<"self", "k", "10">>
    /\ call.k = <<<<"ex", "10">>>>
    /\ ghost.undecorated.kind = "value"
    /\ ghost.undecorated.val["ex"] = "10"
    /\ ret.kind = "error"

\* decrby(key, decrement=10): the body runs with decrement bound to the
\* word "decrement".
DecrbyBindsName ==
    /\ pc = "done"
    /\ call.func = "decrby"
    /\ call.k = <<<<"decrement", "10">>>>
    /\ ghost.undecorated.kind = "value"
    /\ ghost.undecorated.val["decrement"] = "10"
    /\ ret.kind = "value"
    /\ ret.val["decrement"] = "decrement"

====
